---------------------------- MODULE Spec2Model ----------------------------
(***************************************************************************)
(* A model of the WMI CIM repository reader of dtformats                   *)
(* (dtformats/wmi_repository.py): the mappings file parser, the index      *)
(* binary-tree traversal and the object record reassembly.                 *)
(*                                                                         *)
(* Python values are modelled as follows.  None is the record None.  A     *)
(* call's outcome is Return(v) or Raise(e), e the name of the exception    *)
(* class.  A text string is a sequence of one-character strings, a byte    *)
(* string is a sequence of numbers 0..255.  The bytes a read of            *)
(* Objects.data returns are named by their extent in the file, [off, len]. *)
(***************************************************************************)
EXTENDS Integers, Sequences, FiniteSets, TLC

VARIABLES
  python,                  \* major version of the interpreter running the code
  disk,                    \* parameters of the files in the repository directory
  index_mapping_file,      \* CIMRepository._index_mapping_file
  index_binary_tree_file,  \* CIMRepository._index_binary_tree_file
  objects_mapping_file,    \* CIMRepository._objects_mapping_file
  objects_data_file,       \* CIMRepository._objects_data_file
  handles,                 \* the file each of the four file objects is open on
  life,                    \* the last Open or Close call: its steps and outcome
  gen,                     \* the generator object GetKeys() returned last
  yielded,                 \* the keys that generator has yielded so far
  reads,                   \* the sub page numbers it has looked up so far
  first_enum,              \* the first enumeration that ended since Open
  ret,                     \* the last GetObjectRecordByKey call and its outcome
  first_call,              \* the first GetObjectRecordByKey call since Open
  file_object,             \* a mappings file-like object: its bytes and cursor
  mapping_file,            \* the MappingFile object that reads file_object
  map_ret,                 \* the last ReadFileObject call on it
  map_prev,                \* the ReadFileObject call before that one
  page_file,               \* an index file-like object: its bytes and cursor
  page_ret                 \* the last IndexBinaryTreePage.ReadPage call on it

vars == <<python, disk, index_mapping_file, index_binary_tree_file,
          objects_mapping_file, objects_data_file, handles, life, gen,
          yielded, reads,
          first_enum, ret, first_call, file_object, mapping_file, map_ret,
          map_prev, page_file, page_ret>>

repo_vars == <<python, disk, index_mapping_file, index_binary_tree_file,
               objects_mapping_file, objects_data_file, handles, life, gen,
               yielded, reads,
               first_enum, ret, first_call>>

map_vars == <<file_object, mapping_file, map_ret, map_prev>>

page_vars == <<page_file, page_ret>>

---------------------------------------------------------------------------
(* Python values *)

None == [kind |-> "None"]

Return(v) == [kind |-> "return", value |-> v]

Raise(e) == [kind |-> "raise", exc |-> e]

Min(a, b) == IF a < b THEN a ELSE b

Max(a, b) == IF a < b THEN b ELSE a

\* seq[i] of a Python tuple or list: i counts from 0, a negative i counts
\* from the end, anything else raises IndexError.
PyIndexOk(seq, i) == -Len(seq) <= i /\ i < Len(seq)

PyIndex(seq, i) == IF i >= 0 THEN seq[i + 1] ELSE seq[Len(seq) + i + 1]

\* file_object.read(size) of a file of file_size bytes with the cursor at pos:
\* the number of bytes returned.  A negative size reads to the end of the file.
ReadLength(file_size, pos, size) ==
  LET available == Max(0, file_size - pos)
  IN  IF size < 0 THEN available ELSE Min(size, available)

---------------------------------------------------------------------------
(* Mappings file (MappingFile) *)

PAGE_SIZE == 8192

\* The bits of an unsigned integer of the files that the model keeps: its
\* numbers are no larger than the page numbers a checker's integers let it
\* multiply by the page size.
UintBits == 16

\* 0xffffffff, the page number of an unavailable page: every bit set.
UNAVAILABLE == 2 ^ UintBits - 1

_UINT32LE_SIZE == 4

_HEADER_SIGNATURE == 43981

_FOOTER_SIGNATURE == 56506

_FILE_HEADER_SIZE == 12

_FILE_FOOTER_SIZE == 4

\* uint32le.MapByteStream: 4 bytes, least significant first.
_UINT32LE(data) ==
  data[1] + 256 * data[2] + 65536 * data[3] + 16777216 * data[4]

\* file_object.read(size) on a byte string with the cursor at pos.
FileRead(data, pos, size) ==
  LET n == ReadLength(Len(data), pos, size)
  IN  [data |-> SubSeq(data, pos + 1, pos + n), pos |-> pos + n]

\* BinaryDataFormat._ReadStructure: seeks to file_offset, reads data_size
\* bytes and raises ParseError when fewer are there.
_ReadStructure(data, file_offset, data_size) ==
  LET r == FileRead(data, file_offset, data_size)
  IN  IF Len(r.data) # data_size
      THEN [kind |-> "raise", exc |-> "ParseError", pos |-> r.pos]
      ELSE [kind |-> "return", value |-> r.data, pos |-> r.pos]

\* cim_map_header: signature, format_version, number_of_pages.
_ReadFileHeader(data, file_offset) ==
  LET s == _ReadStructure(data, file_offset, _FILE_HEADER_SIZE)
  IN  IF s.kind = "raise" THEN s
      ELSE IF _UINT32LE(SubSeq(s.value, 1, 4)) # _HEADER_SIGNATURE
      THEN [kind |-> "raise", exc |-> "ParseError", pos |-> s.pos]
      ELSE s

\* A footer that is read and not looked at.
_ReadFileFooterUnchecked(data, pos) ==
  _ReadStructure(data, pos, _FILE_FOOTER_SIZE)

\* cim_map_footer: signature.
_ReadFileFooter(data, pos) ==
  LET s == _ReadStructure(data, pos, _FILE_FOOTER_SIZE)
  IN  IF s.kind = "raise" THEN s
      ELSE IF _UINT32LE(s.value) # _FOOTER_SIGNATURE
      THEN [kind |-> "raise", exc |-> "ParseError", pos |-> s.pos]
      ELSE s

\* The size in bytes of a table of number_of_entries page numbers.
EntriesDataSize(number_of_entries) == number_of_entries * _UINT32LE_SIZE

\* cim_map_page_numbers.MapByteStream: number_of_entries uint32le values.
_PAGE_NUMBERS(entries_data, number_of_entries) ==
  [i \in 1..number_of_entries |->
     _UINT32LE(SubSeq(entries_data, 4 * i - 3, 4 * i))]

\* Reads a page numbers table at the cursor: a count and that many entries.
_ReadPageNumbersTable(data, pos) ==
  LET c == FileRead(data, pos, _UINT32LE_SIZE)
  IN  IF Len(c.data) # _UINT32LE_SIZE
      THEN [kind |-> "raise", exc |-> "ParseError", pos |-> c.pos]
      ELSE
        LET number_of_entries == _UINT32LE(c.data)
            e == IF number_of_entries = 0
                 THEN [data |-> <<>>, pos |-> c.pos]
                 ELSE FileRead(data, c.pos, EntriesDataSize(number_of_entries))
        IN  IF number_of_entries # 0
               /\ Len(e.data) # EntriesDataSize(number_of_entries)
            THEN [kind |-> "raise", exc |-> "ParseError", pos |-> e.pos]
            ELSE [kind |-> "return", pos |-> e.pos,
                  value |-> IF e.data = <<>> THEN <<>>
                            ELSE _PAGE_NUMBERS(e.data, number_of_entries)]

\* A data size that is the cursor itself, whatever offset the record began at.
DataSizeFromStartOfFile(pos, file_offset) == pos

\* The data size ReadFileObject stores: the cursor less the offset it began at.
DataSize(pos, file_offset) == pos - file_offset

\* MappingFile.ReadFileObject on the object mf, the cursor of the file at pos:
\* the object and the cursor afterwards and how the call ended.
ReadFileObject(mf, data, pos) ==
  LET file_offset == pos
      h == _ReadFileHeader(data, file_offset)
      m == _ReadPageNumbersTable(data, h.pos)
      mf1 == [mf EXCEPT !.mappings = m.value]
      u == _ReadPageNumbersTable(data, m.pos)
      f == _ReadFileFooter(data, u.pos)
  IN  IF h.kind = "raise"
      THEN [mf |-> mf, pos |-> h.pos, outcome |-> Raise(h.exc)]
      ELSE IF m.kind = "raise"
      THEN [mf |-> mf, pos |-> m.pos, outcome |-> Raise(m.exc)]
      ELSE IF u.kind = "raise"
      THEN [mf |-> mf1, pos |-> u.pos, outcome |-> Raise(u.exc)]
      ELSE IF f.kind = "raise"
      THEN [mf |-> mf1, pos |-> f.pos, outcome |-> Raise(f.exc)]
      ELSE [mf |-> [mf1 EXCEPT !.data_size = DataSize(f.pos, file_offset)],
            pos |-> f.pos, outcome |-> Return(None)]

\* MappingFile.__init__
NewMappingFile == [kind |-> "MappingFile", data_size |-> 0, mappings |-> <<>>]

---------------------------------------------------------------------------
(* Text strings *)

_KEY_SEGMENT_SEPARATOR == "\\"

_KEY_VALUE_SEPARATOR == "."

\* The position of the first c in s, 0 when s holds none.
RECURSIVE Find(_, _)
Find(s, c) ==
  IF s = <<>> THEN 0
  ELSE IF Head(s) = c THEN 1
  ELSE LET i == Find(Tail(s), c) IN IF i = 0 THEN 0 ELSE i + 1

\* The position of the last c in s, 0 when s holds none.
RECURSIVE RFind(_, _)
RFind(s, c) ==
  IF s = <<>> THEN 0
  ELSE IF s[Len(s)] = c THEN Len(s)
  ELSE RFind(SubSeq(s, 1, Len(s) - 1), c)

\* s.partition(c)[0]: s up to its first c, all of s when it holds none.
PartitionHead(s, c) ==
  LET i == Find(s, c) IN IF i = 0 THEN s ELSE SubSeq(s, 1, i - 1)

\* s.partition(c)[2]: s after its first c.
PartitionTail(s, c) ==
  LET i == Find(s, c) IN IF i = 0 THEN <<>> ELSE SubSeq(s, i + 1, Len(s))

\* s after its first c, all of s when it holds none.
AfterFirstSeparator(s, c) == SubSeq(s, Find(s, c) + 1, Len(s))

\* s.rpartition(c)[2]: s after its last c, all of s when it holds none.
RPartitionTail(s, c) == SubSeq(s, RFind(s, c) + 1, Len(s))

\* s.split(c)
RECURSIVE Split(_, _)
Split(s, c) ==
  IF Find(s, c) = 0 THEN <<s>>
  ELSE <<PartitionHead(s, c)>> \o Split(PartitionTail(s, c), c)

\* c.join(parts)
RECURSIVE Join(_, _)
Join(c, parts) ==
  IF parts = <<>> THEN <<>>
  ELSE IF Len(parts) = 1 THEN parts[1]
  ELSE parts[1] \o <<c>> \o Join(c, Tail(parts))

DigitValue(c) ==
  CASE c = "0" -> 0 [] c = "1" -> 1 [] c = "2" -> 2 [] c = "3" -> 3
    [] c = "4" -> 4 [] c = "5" -> 5 [] c = "6" -> 6 [] c = "7" -> 7
    [] c = "8" -> 8 [] c = "9" -> 9 [] OTHER -> -1

IsDigit(c) == DigitValue(c) >= 0

\* s.strip() of blanks
RECURSIVE Strip(_)
Strip(s) ==
  IF s = <<>> THEN s
  ELSE IF Head(s) = " " THEN Strip(Tail(s))
  ELSE IF s[Len(s)] = " " THEN Strip(SubSeq(s, 1, Len(s) - 1))
  ELSE s

\* Whether s is the digits of a decimal literal of int(): digits, which from
\* Python 3.6 on may be grouped by single underscores.
IsDecimal(s, py) ==
  /\ s # <<>>
  /\ IsDigit(s[1])
  /\ IsDigit(s[Len(s)])
  /\ \A i \in 1..Len(s) :
       \/ IsDigit(s[i])
       \/ s[i] = "_" /\ py >= 3 /\ i > 1 /\ IsDigit(s[i - 1])

RECURSIVE DecimalValue(_, _)
DecimalValue(s, acc) ==
  IF s = <<>> THEN acc
  ELSE IF Head(s) = "_" THEN DecimalValue(Tail(s), acc)
  ELSE DecimalValue(Tail(s), 10 * acc + DigitValue(Head(s)))

\* int(s, 10): the value, or ValueError.
Int10(s, py) ==
  LET t == Strip(s)
      signed == t # <<>> /\ t[1] \in {"+", "-"}
      body == IF signed THEN Tail(t) ELSE t
  IN  IF ~IsDecimal(body, py) THEN Raise("ValueError")
      ELSE IF signed /\ t[1] = "-" THEN Return(-DecimalValue(body, 0))
      ELSE Return(DecimalValue(body, 0))

---------------------------------------------------------------------------
(* Objects data file (ObjectsDataFile) and its pages (ObjectsDataPage) *)

_OBJECT_DESCRIPTOR_SIZE == 16

_KEY_VALUE_PAGE_NUMBER_INDEX == 1

_KEY_VALUE_RECORD_IDENTIFIER_INDEX == 2

_KEY_VALUE_DATA_SIZE_INDEX == 3

\* ObjectsDataFile._GetKeyValues: the key name, page number, record
\* identifier and data size of a key, or None.
_GetKeyValues(key, py) ==
  LET k == RPartitionTail(key, _KEY_SEGMENT_SEPARATOR)
      key_values == Split(k, _KEY_VALUE_SEPARATOR)
      page_number == Int10(key_values[_KEY_VALUE_PAGE_NUMBER_INDEX + 1], py)
      record_identifier ==
        Int10(key_values[_KEY_VALUE_RECORD_IDENTIFIER_INDEX + 1], py)
      data_size == Int10(key_values[_KEY_VALUE_DATA_SIZE_INDEX + 1], py)
  IN  IF Find(k, _KEY_VALUE_SEPARATOR) = 0 THEN None
      ELSE IF Len(key_values) # 4 THEN None
      ELSE IF page_number.kind = "raise" THEN None
      ELSE IF record_identifier.kind = "raise" THEN None
      ELSE IF data_size.kind = "raise" THEN None
      ELSE [kind |-> "tuple", key |-> key_values[1],
            page_number |-> page_number.value,
            record_identifier |-> record_identifier.value,
            data_size |-> data_size.value]

\* The object descriptor whose 16 bytes are 0-bytes
_EMPTY_OBJECT_DESCRIPTOR ==
  [identifier |-> 0, data_offset |-> 0, data_size |-> 0]

\* The 16-byte entries at the start of physical page page_number of
\* Objects.data: descriptors, an all-zero entry, and what the page holds
\* after it.
ObjectsPageEntries(dsk, page_number) ==
  dsk.descriptors \o <<_EMPTY_OBJECT_DESCRIPTOR>> \o dsk.after_terminator

\* The loop of _ReadObjectDescriptors over the entries of a page: it appends
\* the descriptors read and ends at the first all-zero one.
RECURSIVE ReadUntilEmpty(_)
ReadUntilEmpty(entries) ==
  IF entries = <<>> THEN <<>>
  ELSE IF Head(entries) = _EMPTY_OBJECT_DESCRIPTOR THEN <<>>
  ELSE <<Head(entries)>> \o ReadUntilEmpty(Tail(entries))

\* The object descriptors read from physical page page_number of Objects.data.
ObjectDescriptorsOnDisk(dsk, page_number) ==
  ReadUntilEmpty(ObjectsPageEntries(dsk, page_number))

\* The exception a `raise errors.ParseError('...{0:s}'.format(exception))`
\* ends in: str.format refuses the format code s for an exception object
\* from Python 3 on.
FormattedParseError(py) == IF py >= 3 THEN "TypeError" ELSE "ParseError"

\* ObjectsDataPage._ReadObjectDescriptors with the cursor at file_offset:
\* descriptors of 16 bytes are read up to the all-zero one; a descriptor cut
\* short by the end of the file cannot be mapped.
_ReadObjectDescriptors(dsk, py, file_offset) ==
  LET table == ObjectDescriptorsOnDisk(dsk, file_offset \div PAGE_SIZE)
      needed == (Len(table) + 1) * _OBJECT_DESCRIPTOR_SIZE
      available == Max(0, dsk.objects_size - file_offset)
  IN  IF available >= needed
      THEN [kind |-> "return", value |-> table, pos |-> file_offset + needed]
      ELSE [kind |-> "raise", exc |-> FormattedParseError(py),
            pos |-> file_offset + available]

\* A seek relative to the cursor (os.SEEK_CUR).
ObjectsPageSeekFromCursor(pos, file_offset) == pos + file_offset

\* file_object.seek(file_offset, os.SEEK_SET) of ObjectsDataPage.ReadPage.
ObjectsPageSeek(pos, file_offset) == file_offset

\* ObjectsDataPage.ReadPage of the file whose cursor is at pos: the page
\* object, or the exception raised.
ObjectsDataPage_ReadPage(dsk, py, pos, file_offset, data_page) ==
  LET o == ObjectsPageSeek(pos, file_offset)
      d == _ReadObjectDescriptors(dsk, py, o)
  IN  IF data_page
      THEN [kind |-> "return", pos |-> o,
            value |-> [kind |-> "ObjectsDataPage", page_offset |-> file_offset,
                       object_descriptors |-> <<>>]]
      ELSE IF d.kind = "raise" THEN d
      ELSE [kind |-> "return", pos |-> d.pos,
            value |-> [kind |-> "ObjectsDataPage", page_offset |-> file_offset,
                       object_descriptors |-> d.value]]

\* ObjectsDataPage.GetObjectDescriptor: the first descriptor with the
\* identifier, when its data size is data_size, else None.
GetObjectDescriptor(object_descriptors, record_identifier, data_size) ==
  LET match == {i \in 1..Len(object_descriptors) :
                  object_descriptors[i].identifier = record_identifier}
      first == CHOOSE i \in match : \A j \in match : i <= j
  IN  IF match = {} THEN None
      ELSE IF object_descriptors[first].data_size # data_size THEN None
      ELSE object_descriptors[first]

\* file_object.seek(file_offset, os.SEEK_SET) of ReadObjectRecordData.
ObjectRecordSeek(pos, file_offset) == file_offset

\* The read size of ReadObjectRecordData.
ReadSize(data_size, available_page_size) ==
  IF data_size > available_page_size THEN available_page_size ELSE data_size

\* ObjectsDataPage.ReadObjectRecordData: the extent of the bytes read.
ReadObjectRecordData(dsk, py, pos, page_offset, data_offset, data_size) ==
  LET file_offset == ObjectRecordSeek(pos, page_offset + data_offset)
      available_page_size == PAGE_SIZE - data_offset
      read_size == ReadSize(data_size, available_page_size)
      n == ReadLength(dsk.objects_size, file_offset, read_size)
  IN  IF read_size < -1 /\ py >= 3
      THEN [kind |-> "raise", exc |-> "ValueError", pos |-> file_offset]
      ELSE [kind |-> "return", value |-> [off |-> file_offset, len |-> n],
            pos |-> file_offset + n]

\* ObjectsDataFile._GetPage: None for a page at or beyond the end of the file.
ObjectsDataFile_GetPage(odf, dsk, py, page_number, data_page) ==
  LET file_offset == page_number * PAGE_SIZE
  IN  IF file_offset >= odf.file_size
      THEN [kind |-> "return", value |-> None, pos |-> odf.pos]
      ELSE ObjectsDataPage_ReadPage(dsk, py, odf.pos, file_offset, data_page)

\* A GetMappedPage that takes a page number beyond the mappings for their
\* last entry.
ObjectsDataFile_GetMappedPageOrLast(odf, dsk, py, page_number, data_page) ==
  IF odf.mappings = <<>> \/ page_number < 0
  THEN [kind |-> "raise", exc |-> "IndexError", pos |-> odf.pos]
  ELSE ObjectsDataFile_GetPage(
         odf, dsk, py, odf.mappings[Min(page_number + 1, Len(odf.mappings))],
         data_page)

\* ObjectsDataFile.GetMappedPage
ObjectsDataFile_GetMappedPage(odf, dsk, py, page_number, data_page) ==
  IF ~PyIndexOk(odf.mappings, page_number)
  THEN [kind |-> "raise", exc |-> "IndexError", pos |-> odf.pos]
  ELSE ObjectsDataFile_GetPage(
         odf, dsk, py, PyIndex(odf.mappings, page_number), data_page)

\* A remaining size that takes a whole page off for every segment.
RemainingDataSizeByPage(data_size, data_segment) == data_size - PAGE_SIZE

\* data_size -= len(data_segment)
RemainingDataSize(data_size, data_segment) == data_size - data_segment.len

\* data_segments.append(data_segment); an empty segment adds no byte.
AppendSegment(data_segments, data_segment) ==
  IF data_segment.len = 0 THEN data_segments
  ELSE Append(data_segments, data_segment)

\* The loop of ObjectsDataFile.GetObjectRecordByKey left with the outcome r
\* while its page_number was page_number.
LoopEnded(r, page_number) ==
  IF r.kind = "raise"
  THEN [kind |-> "raise", exc |-> r.exc, pos |-> r.pos,
        page_number |-> page_number]
  ELSE [kind |-> "return", value |-> r.value, pos |-> r.pos,
        page_number |-> page_number]

\* The loop of ObjectsDataFile.GetObjectRecordByKey, from one test of
\* `data_size > 0` on: the data segments read, or the exception raised, the
\* file object's cursor and the page_number of the loop afterwards.  A page
\* or descriptor that is None is used all the same, which raises
\* AttributeError.
RECURSIVE ReadDataSegments(_, _, _, _, _, _, _, _)
ReadDataSegments(odf, dsk, py, page_number, record_identifier, data_size, data_page, data_segments) ==
  IF data_size <= 0
  THEN LoopEnded([kind |-> "return", value |-> data_segments, pos |-> odf.pos],
                 page_number)
  ELSE
    LET p == ObjectsDataFile_GetMappedPage(odf, dsk, py, page_number, data_page)
        object_page == p.value
        object_descriptor ==
          GetObjectDescriptor(
            object_page.object_descriptors, record_identifier, data_size)
        data_offset == IF data_page THEN 0 ELSE object_descriptor.data_offset
        d == ReadObjectRecordData(
               dsk, py, p.pos, object_page.page_offset, data_offset, data_size)
    IN  IF p.kind = "raise" THEN LoopEnded(p, page_number)
        ELSE IF object_page = None
        THEN LoopEnded([kind |-> "raise", exc |-> "AttributeError",
                        pos |-> p.pos], page_number)
        ELSE IF ~data_page /\ object_descriptor = None
        THEN LoopEnded([kind |-> "raise", exc |-> "AttributeError",
                        pos |-> p.pos], page_number)
        ELSE IF d.kind = "raise" THEN LoopEnded(d, page_number)
        ELSE ReadDataSegments(
               [odf EXCEPT !.pos = d.pos], dsk, py, page_number + 1,
               record_identifier, RemainingDataSize(data_size, d.value),
               TRUE, AppendSegment(data_segments, d.value))

\* ObjectsDataFile.GetObjectRecordByKey: the key values are unpacked whatever
\* _GetKeyValues returned, which raises TypeError for None.
ObjectsDataFile_GetObjectRecordByKey(odf, dsk, py, key) ==
  LET kv == _GetKeyValues(key, py)
      r == ReadDataSegments(odf, dsk, py, kv.page_number, kv.record_identifier,
                            kv.data_size, FALSE, <<>>)
  IN  IF kv = None THEN [outcome |-> Raise("TypeError"), odf |-> odf]
      ELSE IF r.kind = "raise"
      THEN [outcome |-> Raise(r.exc), odf |-> [odf EXCEPT !.pos = r.pos]]
      ELSE [outcome |-> Return([kind |-> "ObjectRecord",
                                data_type |-> PartitionHead(kv.key, "_"),
                                data |-> r.value]),
            odf |-> [odf EXCEPT !.pos = r.pos]]

\* CIMRepository.GetObjectRecordByKey
CIMRepository_GetObjectRecordByKey(odf, dsk, py, key) ==
  IF odf = None THEN [outcome |-> Return(None), odf |-> odf]
  ELSE ObjectsDataFile_GetObjectRecordByKey(odf, dsk, py, key)

\* len(object_record.data)
RECURSIVE DataLength(_)
DataLength(data) ==
  IF data = <<>> THEN 0 ELSE Head(data).len + DataLength(Tail(data))

---------------------------------------------------------------------------
(* Index binary-tree file (IndexBinaryTreeFile) and its pages *)

PAGE_TYPE_ADMINISTRATIVE == 44509

PAGE_TYPE_ACTIVE == 44236

DigitChar(d) == <<"0", "1", "2", "3", "4", "5", "6", "7", "8", "9">>[d + 1]

\* '{0:d}'.format(n) of a number n >= 0
RECURSIVE Decimal(_)
Decimal(n) ==
  IF n < 10 THEN <<DigitChar(n)>>
  ELSE Decimal(n \div 10) \o <<DigitChar(n % 10)>>

\* The last segment of a key that names an object record.
Locator(name, page_number, record_identifier, data_size) ==
  name \o <<".">> \o Decimal(page_number) \o <<".">>
    \o Decimal(record_identifier) \o <<".">> \o Decimal(data_size)

NameA == <<"C", "D", "_", "A">>

NameB == <<"I", "_", "B">>

NameC == <<"R", "_", "C">>

NameD == <<"N", "S", "_", "D">>

Namespace == <<"N">>

\* A decoded page of Index.btr that holds the given page values, one key of
\* the segments 0 and i for every further value i, and the sub pages array.
IndexPageOnDisk(page_type, root_page_number, page_values, sub_pages_array) ==
  [page_type |-> page_type,
   root_page_number |-> root_page_number,
   number_of_keys |-> Len(sub_pages_array) - 1,
   sub_pages_array |-> sub_pages_array,
   page_key_segments |-> [k \in 1..(Len(sub_pages_array) - 1) |-> <<0, k>>],
   page_values |-> page_values]

\* The pages of Index.btr, by physical page number: the administrative page,
\* a page of two keys, a page of one key and a page of one key without sub
\* pages.
IndexPagesOnDisk(dsk) ==
  SubSeq(
    << IndexPageOnDisk(dsk.admin_type, dsk.root_page_number, <<>>, <<0>>),
       IndexPageOnDisk(PAGE_TYPE_ACTIVE, 0,
                       <<Namespace, Locator(NameA, 0, 7, 12288),
                         Locator(NameB, 1, 7, 100)>>,
                       dsk.children1),
       IndexPageOnDisk(PAGE_TYPE_ACTIVE, 0,
                       <<Namespace, Locator(NameC, 0, 8, 100)>>, dsk.children2),
       IndexPageOnDisk(PAGE_TYPE_ACTIVE, 0, <<Namespace, NameD>>,
                       <<0, UNAVAILABLE>>) >>,
    1, dsk.index_pages)

\* os.stat(filename).st_size of Index.btr
IndexFileSize(dsk) == dsk.index_pages * PAGE_SIZE

\* A sub pages list that keeps every entry of the array.
SubPagesUnfiltered(sub_pages_array) == sub_pages_array

\* A sub pages list that drops the entries 0 and keeps the entries 0xffffffff.
SubPagesNotZero(sub_pages_array) ==
  SelectSeq(sub_pages_array, LAMBDA n : n # 0)

\* IndexBinaryTreePage._ReadSubPages: the entries of the sub pages array other
\* than 0 and 0xffffffff, in array order.
SubPages(sub_pages_array) ==
  SelectSeq(sub_pages_array, LAMBDA n : n \notin {0, UNAVAILABLE})

\* The key path of one page key: the page values its segments name, joined
\* by and led by the key segment separator.
KeyPath(page_key_segments, page_values) ==
  <<_KEY_SEGMENT_SEPARATOR>>
    \o Join(_KEY_SEGMENT_SEPARATOR,
            [i \in 1..Len(page_key_segments) |->
               page_values[page_key_segments[i] + 1]])

\* A seek relative to the cursor (os.SEEK_CUR).
IndexSeekFromCursor(pos, file_offset) == pos + file_offset

\* file_object.seek(file_offset, os.SEEK_SET) of IndexBinaryTreePage.ReadPage.
IndexSeek(pos, file_offset) == file_offset

\* The end of IndexBinaryTreePage.ReadPage, once the page d is decoded and the
\* cursor is at pos: the keys are built from the page values their segments
\* name.
IndexBinaryTreePage_Keys(d, pos) ==
  IF \E k \in 1..Len(d.page_key_segments) :
       \E i \in 1..Len(d.page_key_segments[k]) :
         d.page_key_segments[k][i] >= Len(d.page_values)
  THEN [kind |-> "raise", exc |-> "IndexError", pos |-> pos]
  ELSE [kind |-> "return", pos |-> pos,
        value |-> [kind |-> "IndexBinaryTreePage",
                   page_type |-> d.page_type,
                   root_page_number |-> d.root_page_number,
                   keys |-> [k \in 1..Len(d.page_key_segments) |->
                               KeyPath(d.page_key_segments[k], d.page_values)],
                   sub_pages |-> SubPages(d.sub_pages_array)]]

\* IndexBinaryTreePage.ReadPage of the file whose cursor is at pos: the page
\* object, or the exception raised, and the cursor afterwards.  A page the
\* file ends in cannot be read; a segment index beyond the page values raises
\* IndexError.
IndexBinaryTreePage_ReadPage(dsk, pos, file_offset) ==
  LET o == IndexSeek(pos, file_offset)
  IN  IF o + PAGE_SIZE > IndexFileSize(dsk)
      THEN [kind |-> "raise", exc |-> "ParseError",
            pos |-> Max(o, IndexFileSize(dsk))]
      ELSE IndexBinaryTreePage_Keys(
             IndexPagesOnDisk(dsk)[(o \div PAGE_SIZE) + 1], o + PAGE_SIZE)

\* IndexBinaryTreeFile._GetPage: None for a page at or beyond the end of the
\* file.
IndexBinaryTreeFile_GetPage(ibt, dsk, page_number) ==
  LET file_offset == page_number * PAGE_SIZE
  IN  IF file_offset >= ibt.file_size
      THEN [kind |-> "return", value |-> None, pos |-> ibt.pos]
      ELSE IndexBinaryTreePage_ReadPage(dsk, ibt.pos, file_offset)

\* The outcome r of a page read as the outcome of a method of ibt.
WithCursor(ibt, r) ==
  [outcome |-> IF r.kind = "raise" THEN Raise(r.exc) ELSE Return(r.value),
   ibt |-> [ibt EXCEPT !.pos = r.pos]]

\* The end of GetFirstMappedPage, once _GetPage ended as r: a page that is not
\* administrative is dropped, an administrative page is cached.
GetFirstMappedPage_Cache(r) ==
  IF r.outcome.kind = "raise" THEN r
  ELSE IF r.outcome.value = None THEN r
  ELSE IF r.outcome.value.page_type # PAGE_TYPE_ADMINISTRATIVE
  THEN [outcome |-> Return(None), ibt |-> r.ibt]
  ELSE [outcome |-> Return(r.outcome.value),
        ibt |-> [r.ibt EXCEPT !.first_mapped_page = r.outcome.value]]

\* IndexBinaryTreeFile.GetFirstMappedPage
GetFirstMappedPage(ibt, dsk) ==
  IF ibt.first_mapped_page # None
  THEN [outcome |-> Return(ibt.first_mapped_page), ibt |-> ibt]
  ELSE IF ibt.mappings = <<>>
  THEN [outcome |-> Raise("IndexError"), ibt |-> ibt]
  ELSE GetFirstMappedPage_Cache(
         WithCursor(ibt,
                    IndexBinaryTreeFile_GetPage(ibt, dsk, ibt.mappings[1])))

\* A root page number taken for the number of a page of the file.
RootPageNumberUnmapped(mappings, root_page_number) == root_page_number

\* self._index_mapping_file.mappings[first_mapped_page.root_page_number]
RootPageNumber(mappings, root_page_number) == mappings[root_page_number + 1]

\* The end of GetRootPage, once _GetPage ended as r: the page is cached.
GetRootPage_Cache(r) ==
  IF r.outcome.kind = "raise" THEN r
  ELSE IF r.outcome.value = None THEN r
  ELSE [outcome |-> Return(r.outcome.value),
        ibt |-> [r.ibt EXCEPT !.root_page = r.outcome.value]]

\* GetRootPage once GetFirstMappedPage ended as f: the root page is read at
\* the physical page the mappings give for its number.
GetRootPage_Mapped(f, dsk) ==
  IF f.outcome.kind = "raise" THEN f
  ELSE IF f.outcome.value = None THEN f
  ELSE IF ~PyIndexOk(f.ibt.mappings, f.outcome.value.root_page_number)
  THEN [outcome |-> Raise("IndexError"), ibt |-> f.ibt]
  ELSE GetRootPage_Cache(
         WithCursor(
           f.ibt,
           IndexBinaryTreeFile_GetPage(
             f.ibt, dsk,
             RootPageNumber(f.ibt.mappings,
                            f.outcome.value.root_page_number))))

\* IndexBinaryTreeFile.GetRootPage
GetRootPage(ibt, dsk) ==
  IF ibt.root_page # None
  THEN [outcome |-> Return(ibt.root_page), ibt |-> ibt]
  ELSE GetRootPage_Mapped(GetFirstMappedPage(ibt, dsk), dsk)

\* IndexBinaryTreeFile.GetMappedPage
IndexBinaryTreeFile_GetMappedPage(ibt, dsk, page_number) ==
  IF ~PyIndexOk(ibt.mappings, page_number)
  THEN [outcome |-> Raise("IndexError"), ibt |-> ibt]
  ELSE WithCursor(
         ibt,
         IndexBinaryTreeFile_GetPage(ibt, dsk, PyIndex(ibt.mappings, page_number)))

---------------------------------------------------------------------------
(* The bytes of an index binary-tree page (IndexBinaryTreePage.ReadPage) *)

\* A file f of f.size bytes holds the bytes f.data from offset f.base on and
\* 0-bytes elsewhere.  The byte at offset i:
PageByte(f, i) ==
  IF i >= f.base /\ i < f.base + Len(f.data) THEN f.data[i - f.base + 1] ELSE 0

\* file_object.read(size) with the cursor at pos: the extent of the bytes
\* returned.
PageRead(f, pos, size) == [off |-> pos, len |-> ReadLength(f.size, pos, size)]

\* uint16le and uint32le values at an offset of the file
Uint16At(f, off) == PageByte(f, off) + 256 * PageByte(f, off + 1)

Uint32At(f, off) == Uint16At(f, off) + 65536 * Uint16At(f, off + 2)

_PAGE_HEADER_SIZE == 20

_UINT16LE_SIZE == 2

\* IndexBinaryTreePage._ReadHeader: cim_page_header is read at the cursor
\* through _ReadStructure, which raises ParseError when the file ends in it.
_ReadHeader(f, pos) ==
  LET h == PageRead(f, pos, _PAGE_HEADER_SIZE)
  IN  IF h.len # _PAGE_HEADER_SIZE
      THEN [kind |-> "raise", exc |-> "ParseError", pos |-> pos + h.len]
      ELSE [kind |-> "return", pos |-> pos + h.len,
            page_type |-> Uint32At(f, pos),
            root_page_number |-> Uint32At(f, pos + 12),
            number_of_keys |-> Uint32At(f, pos + 16)]

\* The array of number_of_keys uint32 that ReadPage reads after the header
\* and does not look at: the cursor after it.
ReadUnknownArray(f, pos, number_of_keys) ==
  IF number_of_keys > 0
  THEN pos + PageRead(f, pos, number_of_keys * 4).len
  ELSE pos

\* IndexBinaryTreePage._ReadSubPages up to its loop: number_of_keys + 1
\* uint32le are read and mapped, which fails when the file ends in them.
_ReadSubPages(f, py, pos, number_of_keys) ==
  LET number_of_entries == number_of_keys + 1
      e == PageRead(f, pos, number_of_entries * 4)
  IN  IF e.len # number_of_entries * 4
      THEN [kind |-> "raise", exc |-> FormattedParseError(py),
            pos |-> pos + e.len]
      ELSE [kind |-> "return", pos |-> pos + e.len,
            sub_pages_array |->
              [i \in 1..number_of_entries |-> Uint32At(f, pos + 4 * (i - 1))]]

\* IndexBinaryTreePage._ReadKeyOffsets: nothing is read, and _key_offsets
\* stays None, when the page has no keys.
_ReadKeyOffsets(f, py, pos, number_of_keys) ==
  LET e == PageRead(f, pos, number_of_keys * 2)
  IN  IF number_of_keys = 0
      THEN [kind |-> "return", pos |-> pos, key_offsets |-> None]
      ELSE IF e.len # number_of_keys * 2
      THEN [kind |-> "raise", exc |-> FormattedParseError(py),
            pos |-> pos + e.len]
      ELSE [kind |-> "return", pos |-> pos + e.len,
            key_offsets |->
              [kind |-> "list",
               items |-> [i \in 1..number_of_keys |->
                            Uint16At(f, pos + 2 * (i - 1))]]]

\* cim_page_key.MapByteStream(key_data[page_key_offset:]): the segments of
\* the key, None when the data ends in the key.
PageKey(f, key_data, page_key_offset) ==
  LET available == key_data.len - page_key_offset
      off == key_data.off + page_key_offset
      number_of_segments == Uint16At(f, off)
  IN  IF available < 2 THEN None
      ELSE IF available < 2 + 2 * number_of_segments THEN None
      ELSE [kind |-> "cim_page_key",
            segments |-> [j \in 1..number_of_segments |->
                            Uint16At(f, off + 2 * j)]]

\* The loop of _ReadKeyData over the key offsets.
PageKeys_Read(f, key_data, key_offsets) ==
  [i \in 1..Len(key_offsets) |-> PageKey(f, key_data, key_offsets[i] * 2)]

\* IndexBinaryTreePage._ReadKeyData: a size in units of 2 bytes, then the key
\* data, from which a key is mapped at each key offset.  Nothing more is read
\* for a size of 0; key offsets that are None cannot be iterated.
_ReadKeyData(f, py, pos, key_offsets) ==
  LET size_data == PageRead(f, pos, _UINT16LE_SIZE)
      data_size == Uint16At(f, pos)
      key_data == PageRead(f, pos + 2, data_size * 2)
      end == pos + 2 + key_data.len
  IN  IF size_data.len # _UINT16LE_SIZE
      THEN [kind |-> "raise", exc |-> FormattedParseError(py),
            pos |-> pos + size_data.len]
      ELSE IF data_size = 0
      THEN [kind |-> "return", pos |-> pos + 2, page_key_segments |-> <<>>]
      ELSE IF key_offsets = None
      THEN [kind |-> "raise", exc |-> "TypeError", pos |-> end]
      ELSE IF \E i \in 1..Len(key_offsets.items) :
                PageKeys_Read(f, key_data, key_offsets.items)[i] = None
      THEN [kind |-> "raise", exc |-> FormattedParseError(py), pos |-> end]
      ELSE [kind |-> "return", pos |-> end,
            page_key_segments |->
              [i \in 1..Len(key_offsets.items) |->
                 PageKeys_Read(f, key_data, key_offsets.items)[i].segments]]

\* IndexBinaryTreePage._ReadOffsetsTable (_ReadValueOffsets): a count and that
\* many uint16le, with ParseError when the file ends in either.
_ReadOffsetsTable(f, pos) ==
  LET c == PageRead(f, pos, _UINT16LE_SIZE)
      number_of_offsets == Uint16At(f, pos)
      e == PageRead(f, pos + 2, number_of_offsets * _UINT16LE_SIZE)
  IN  IF c.len # _UINT16LE_SIZE
      THEN [kind |-> "raise", exc |-> "ParseError", pos |-> pos + c.len]
      ELSE IF number_of_offsets = 0
      THEN [kind |-> "return", pos |-> pos + 2, offsets |-> <<>>]
      ELSE IF e.len # number_of_offsets * _UINT16LE_SIZE
      THEN [kind |-> "raise", exc |-> "ParseError", pos |-> pos + 2 + e.len]
      ELSE [kind |-> "return", pos |-> pos + 2 + e.len,
            offsets |-> [i \in 1..number_of_offsets |->
                           Uint16At(f, pos + 2 * i)]]

\* The ASCII character of a byte
Chr(b) ==
  CASE b = 65 -> "A" [] b = 66 -> "B" [] b = 67 -> "C" [] b = 46 -> "."
    [] b = 92 -> "\\" [] OTHER -> "?"

\* string.MapByteStream(value_data[page_value_offset:]): the ASCII characters
\* before the first 0-byte, None when there is no 0-byte or a byte is not
\* ASCII.
PageValue(f, value_data, page_value_offset) ==
  LET available == value_data.len - page_value_offset
      off == value_data.off + page_value_offset
      zeros == {n \in 0..(available - 1) : PageByte(f, off + n) = 0}
      length == CHOOSE n \in zeros : \A m \in zeros : n <= m
  IN  IF zeros = {} THEN None
      ELSE IF \E n \in 0..(length - 1) : PageByte(f, off + n) > 127 THEN None
      ELSE [kind |-> "str",
            value |-> [n \in 1..length |-> Chr(PageByte(f, off + n - 1))]]

\* The loop of _ReadValueData over the page value offsets.
PageValues_Read(f, value_data, page_value_offsets) ==
  [i \in 1..Len(page_value_offsets) |->
     PageValue(f, value_data, page_value_offsets[i])]

\* IndexBinaryTreePage._ReadValueData: a size in bytes, then the value data,
\* from which a string is mapped at each value offset.  Nothing more is read
\* for a size of 0.
_ReadValueData(f, py, pos, page_value_offsets) ==
  LET size_data == PageRead(f, pos, _UINT16LE_SIZE)
      data_size == Uint16At(f, pos)
      value_data == PageRead(f, pos + 2, data_size)
      end == pos + 2 + value_data.len
  IN  IF size_data.len # _UINT16LE_SIZE
      THEN [kind |-> "raise", exc |-> FormattedParseError(py),
            pos |-> pos + size_data.len]
      ELSE IF data_size = 0
      THEN [kind |-> "return", pos |-> pos + 2, page_values |-> <<>>]
      ELSE IF \E i \in 1..Len(page_value_offsets) :
                PageValues_Read(f, value_data, page_value_offsets)[i] = None
      THEN [kind |-> "raise", exc |-> "ParseError", pos |-> end]
      ELSE [kind |-> "return", pos |-> end,
            page_values |->
              [i \in 1..Len(page_value_offsets) |->
                 PageValues_Read(f, value_data, page_value_offsets)[i].value]]

\* The end of ReadPage, with the cursor at pos after the value data: the
\* rest of the page is read as trailing data, and the keys are built.  A
\* trailing data size below -1 is refused by read() from Python 3 on; any
\* other negative size reads to the end of the file.
ReadPage_Trailing(f, py, file_offset, h, s, k, v) ==
  LET trailing_data_size == (file_offset + PAGE_SIZE) - v.pos
      trailing_data == PageRead(f, v.pos, trailing_data_size)
  IN  IF v.kind = "raise" THEN v
      ELSE IF trailing_data_size < -1 /\ py >= 3
      THEN [kind |-> "raise", exc |-> "ValueError", pos |-> v.pos]
      ELSE IndexBinaryTreePage_Keys(
             [page_type |-> h.page_type,
              root_page_number |-> h.root_page_number,
              sub_pages_array |-> s.sub_pages_array,
              page_key_segments |-> k.page_key_segments,
              page_values |-> v.page_values],
             v.pos + trailing_data.len)

\* ReadPage from _ReadValueOffsets on, which ended as t.
ReadPage_Values(f, py, file_offset, h, s, k, t) ==
  IF t.kind = "raise" THEN t
  ELSE ReadPage_Trailing(f, py, file_offset, h, s, k,
                         _ReadValueData(f, py, t.pos, t.offsets))

\* ReadPage from _ReadKeyData on, which ended as k.
ReadPage_KeyData(f, py, file_offset, h, s, k) ==
  IF k.kind = "raise" THEN k
  ELSE ReadPage_Values(f, py, file_offset, h, s, k,
                       _ReadOffsetsTable(f, k.pos))

\* ReadPage from _ReadKeyOffsets on, which ended as o.
ReadPage_KeyOffsets(f, py, file_offset, h, s, o) ==
  IF o.kind = "raise" THEN o
  ELSE ReadPage_KeyData(f, py, file_offset, h, s,
                        _ReadKeyData(f, py, o.pos, o.key_offsets))

\* ReadPage from _ReadSubPages on, which ended as s.
ReadPage_SubPages(f, py, file_offset, h, s) ==
  IF s.kind = "raise" THEN s
  ELSE ReadPage_KeyOffsets(f, py, file_offset, h, s,
                           _ReadKeyOffsets(f, py, s.pos, h.number_of_keys))

\* ReadPage from _ReadHeader on, which ended as h.
ReadPage_Header(f, py, file_offset, h) ==
  IF h.kind = "raise" THEN h
  ELSE ReadPage_SubPages(
         f, py, file_offset, h,
         _ReadSubPages(f, py, ReadUnknownArray(f, h.pos, h.number_of_keys),
                       h.number_of_keys))

\* IndexBinaryTreePage.ReadPage(file_object, file_offset) on the bytes of the
\* file f, whose cursor is at pos: the page object, or the exception raised,
\* and the cursor afterwards.
ReadPage(f, py, pos, file_offset) ==
  ReadPage_Header(f, py, file_offset,
                  _ReadHeader(f, IndexSeek(pos, file_offset)))

---------------------------------------------------------------------------
(* Mappings files to read *)

MaxEntries == 2

MapEntryValues == {5, UNAVAILABLE}

\* The sequences over S of at most n elements.
SeqsUpTo(S, n) == UNION {[1..k -> S] : k \in 0..n}

RECURSIVE Concat(_)
Concat(seqs) == IF seqs = <<>> THEN <<>> ELSE Head(seqs) \o Concat(Tail(seqs))

\* The 4 bytes of a uint32le value.
EncodeUint32LE(n) ==
  <<n % 256, (n \div 256) % 256, (n \div 65536) % 256, (n \div 16777216) % 256>>

\* A page numbers table: its count, then its entries.
EncodePageNumbersTable(t) ==
  EncodeUint32LE(Len(t)) \o Concat([i \in 1..Len(t) |-> EncodeUint32LE(t[i])])

\* One mapping record: header, mappings, unknown entries, footer.
EncodeMappingRecord(header_signature, mappings, unknown_entries, footer_signature) ==
  EncodeUint32LE(header_signature) \o EncodeUint32LE(1)
    \o EncodeUint32LE(Len(mappings))
    \o EncodePageNumbersTable(mappings)
    \o EncodePageNumbersTable(unknown_entries)
    \o EncodeUint32LE(footer_signature)

\* 0x0000abcd, and the signatures 0x0000cdab and 0x0001abcd
HeaderSignatures == {_HEADER_SIGNATURE, 52651, 109517}

FooterSignatures == {_FOOTER_SIGNATURE, 47836}

\* A file of two back-to-back records (objects, then index), less the last
\* cut bytes.
MappingFileData ==
  { LET d == EncodeMappingRecord(h1, m1, u1, f1)
              \o EncodeMappingRecord(h2, m2, <<>>, _FOOTER_SIGNATURE)
    IN  SubSeq(d, 1, Len(d) - cut) :
      h1 \in HeaderSignatures, f1 \in FooterSignatures,
      m1 \in SeqsUpTo(MapEntryValues, MaxEntries), u1 \in {<<>>, <<7>>},
      h2 \in HeaderSignatures,
      m2 \in SeqsUpTo(MapEntryValues, MaxEntries), cut \in {0, 1, 5, 9} }

NoCall == [kind |-> "no call"]

MapInit ==
  /\ file_object \in [data : MappingFileData, pos : {0}]
  /\ mapping_file = NewMappingFile
  /\ map_ret = NoCall
  /\ map_prev = NoCall

\* What a ReadFileObject call that began at offset f and ended as r leaves.
MapCall(f, r) ==
  IF r.outcome.kind = "return"
  THEN [kind |-> "return", f |-> f, data_size |-> r.mf.data_size]
  ELSE [kind |-> "raise", f |-> f, exc |-> r.outcome.exc]

\* mapping_file.ReadFileObject(file_object): the file is read on from its cursor.
MapReadFileObject ==
  /\ map_ret.kind # "raise"
  /\ LET r == ReadFileObject(mapping_file, file_object.data, file_object.pos)
     IN  /\ mapping_file' = r.mf
         /\ file_object' = [file_object EXCEPT !.pos = r.pos]
         /\ map_ret' = MapCall(file_object.pos, r)
         /\ map_prev' = map_ret
  /\ UNCHANGED <<repo_vars, page_vars>>

\* A second MappingFile opened on the same path at file_offset = data_size of
\* the first, which was read from the start of the file.
MapOpenAtDataSize ==
  /\ map_ret.kind = "return"
  /\ map_ret.f = 0
  /\ LET file_offset == mapping_file.data_size
         r == ReadFileObject(NewMappingFile, file_object.data, file_offset)
     IN  /\ mapping_file' = r.mf
         /\ file_object' = [file_object EXCEPT !.pos = r.pos]
         /\ map_ret' = MapCall(file_offset, r)
         /\ map_prev' = map_ret
  /\ UNCHANGED <<repo_vars, page_vars>>

MapNext == MapReadFileObject \/ MapOpenAtDataSize

---------------------------------------------------------------------------
(* Index binary-tree pages to read *)

\* The 2 bytes of a uint16le value.
EncodeUint16LE(n) == <<n % 256, (n \div 256) % 256>>

EncodeUint16Array(a) == Concat([i \in 1..Len(a) |-> EncodeUint16LE(a[i])])

EncodeUint32Array(a) == Concat([i \in 1..Len(a) |-> EncodeUint32LE(a[i])])

\* The bytes of a page from its start to the end of its value data: the
\* header, the unknown array, the sub pages, the key offsets, the key data
\* with its size, the value offsets with their count, the value data with
\* its size.
EncodeIndexPage(c) ==
  EncodeUint32Array(<<PAGE_TYPE_ACTIVE, 0, 0, 0, c.number_of_keys>>)
    \o EncodeUint32Array(c.unknown)
    \o EncodeUint32Array(c.sub_pages_array)
    \o EncodeUint16Array(c.key_offsets)
    \o EncodeUint16LE(c.key_data_size) \o EncodeUint16Array(c.key_data)
    \o EncodeUint16LE(Len(c.value_offsets)) \o EncodeUint16Array(c.value_offsets)
    \o EncodeUint16LE(c.value_data_size) \o c.value_data

\* Key offsets, key data size and key data of pages of 0, 1 and 2 keys: no
\* key data; keys of 0, 1 and 2 segments; a key that the key data ends in;
\* a key offset beyond the key data; key data on a page without keys.
PageKeyData(number_of_keys) ==
  CASE number_of_keys = 0 ->
         { <<(<<>>), 0, (<<>>)>>, <<(<<>>), 1, <<0>>>> }
    [] number_of_keys = 1 ->
         { <<(<<0>>), 0, (<<>>)>>, <<(<<0>>), 2, <<1, 0>>>>,
           <<(<<0>>), 3, <<2, 0, 1>>>>, <<(<<0>>), 1, <<0>>>>,
           <<(<<0>>), 1, <<2>>>>, <<(<<5>>), 2, <<1, 0>>>> }
    [] OTHER ->
         { <<(<<0, 2>>), 4, <<1, 0, 1, 1>>>>, <<(<<0, 2>>), 0, (<<>>)>>,
           <<(<<0, 0>>), 2, <<1, 0>>>> }

\* Value offsets, value data size and value data: the strings "A"; "A" and
\* "BC"; "A" and the empty string; "A\B"; a string without its end; a string
\* that is not ASCII; no value; offsets without data; data that nothing
\* points into and that ends one byte beyond a page without keys.
PageValueData ==
  { <<(<<0>>), 2, <<65, 0>>>>, <<(<<0, 2>>), 5, <<65, 0, 66, 67, 0>>>>,
    <<(<<0, 1>>), 2, <<65, 0>>>>, <<(<<0>>), 4, <<65, 92, 66, 0>>>>,
    <<(<<0>>), 1, <<65>>>>, <<(<<0>>), 2, <<200, 0>>>>,
    <<(<<>>), 0, (<<>>)>>, <<(<<0>>), 0, (<<>>)>>,
    <<(<<>>), PAGE_SIZE + 1 - 30, (<<>>)>> }

\* The sub pages arrays of pages of 0, 1 and 2 keys
PageSubPages(number_of_keys) ==
  IF number_of_keys < 2
  THEN [1..(number_of_keys + 1) -> {0, 3, UNAVAILABLE}]
  ELSE { <<3, 0, 4>>, <<0, 0, 0>>, <<UNAVAILABLE, 3, 0>> }

\* A number of keys whose arrays do not fit a page
ManyKeys == 1000

PagesOf(number_of_keys) ==
  { [number_of_keys |-> number_of_keys,
     unknown |-> [i \in 1..number_of_keys |-> 0],
     sub_pages_array |-> s, key_offsets |-> k[1], key_data_size |-> k[2],
     key_data |-> k[3], value_offsets |-> v[1], value_data_size |-> v[2],
     value_data |-> v[3]] :
    s \in PageSubPages(number_of_keys), k \in PageKeyData(number_of_keys),
    v \in PageValueData }

\* The pages read: pages of 0, 1 and 2 keys, and a page that is all 0-bytes
\* but for a header of many keys.
IndexPageData ==
  { EncodeIndexPage(c) : c \in PagesOf(0) \cup PagesOf(1) \cup PagesOf(2) }
    \cup { EncodeUint32Array(<<PAGE_TYPE_ACTIVE, 0, 0, 0, ManyKeys>>) }

\* The files read: one page; a page followed by two more; half a page.
IndexPageFiles ==
  { [base |-> b[1], data |-> d, size |-> b[2], pos |-> 0] :
    b \in { <<0, PAGE_SIZE>>, <<PAGE_SIZE, 3 * PAGE_SIZE>>,
            <<0, PAGE_SIZE \div 2>> },
    d \in IndexPageData }

PageInit ==
  /\ page_file \in IndexPageFiles
  /\ page_ret = NoCall

PageIdle ==
  /\ page_file = [base |-> 0, data |-> <<>>, size |-> 0, pos |-> 0]
  /\ page_ret = NoCall

\* index_page.ReadPage(file_object, file_offset) on a new IndexBinaryTreePage,
\* at the start of a page of the file.
PageReadPage(file_offset) ==
  /\ \E r \in {ReadPage(page_file, python, page_file.pos, file_offset)} :
       /\ page_file' = [page_file EXCEPT !.pos = r.pos]
       /\ page_ret' = [kind |-> "call", file_offset |-> file_offset, r |-> r]
  /\ UNCHANGED <<repo_vars, map_vars>>

PageNext == \E n \in 0..1 : PageReadPage(n * PAGE_SIZE)

---------------------------------------------------------------------------
(* The repository directory: file names and glob.glob *)

UpperCase ==
  <<"A", "B", "C", "D", "E", "F", "G", "H", "I", "J", "K", "L", "M", "N", "O",
    "P", "Q", "R", "S", "T", "U", "V", "W", "X", "Y", "Z">>

LowerCase ==
  <<"a", "b", "c", "d", "e", "f", "g", "h", "i", "j", "k", "l", "m", "n", "o",
    "p", "q", "r", "s", "t", "u", "v", "w", "x", "y", "z">>

\* c.lower() of one character
Lower(c) ==
  IF \E i \in 1..26 : UpperCase[i] = c
  THEN LowerCase[CHOOSE i \in 1..26 : UpperCase[i] = c] ELSE c

LowerName(name) == [i \in 1..Len(name) |-> Lower(name[i])]

\* os.path.normcase of a file name and of a pattern: lower case on Windows
\* ("nt"), the name as it is elsewhere.
NormCase(name, os) == IF os = "nt" THEN LowerName(name) ELSE name

NormCasePattern(pattern, os) ==
  IF os = "nt"
  THEN [i \in 1..Len(pattern) |-> {Lower(c) : c \in pattern[i]}]
  ELSE pattern

\* The patterns Open hands to glob.glob, a set of characters for every
\* character of the name.
IndexMapPattern ==
  <<{"I", "i"}, {"N", "n"}, {"D", "d"}, {"E", "e"}, {"X", "x"}, {"."},
    {"M", "m"}, {"A", "a"}, {"P", "p"}>>

IndexBtrPattern ==
  <<{"I", "i"}, {"N", "n"}, {"D", "d"}, {"E", "e"}, {"X", "x"}, {"."},
    {"B", "b"}, {"T", "t"}, {"R", "r"}>>

ObjectsMapPattern ==
  <<{"O", "o"}, {"B", "b"}, {"J", "j"}, {"E", "e"}, {"C", "c"}, {"T", "t"},
    {"S", "s"}, {"."}, {"M", "m"}, {"A", "a"}, {"P", "p"}>>

ObjectsDataPattern ==
  <<{"O", "o"}, {"B", "b"}, {"J", "j"}, {"E", "e"}, {"C", "c"}, {"T", "t"},
    {"S", "s"}, {"."}, {"D", "a"}, {"A", "a"}, {"T", "t"}, {"A", "a"}>>

\* fnmatch: the name has a character of every set of the pattern, in turn.
FnMatch(name, pattern, os) ==
  LET n == NormCase(name, os)
      p == NormCasePattern(pattern, os)
  IN  /\ Len(n) = Len(p)
      /\ \A i \in 1..Len(n) : n[i] \in p[i]

\* glob.glob(os.path.join(path, pattern)): the names of the directory that
\* match.
Glob(dsk, pattern) == {name \in dsk.names : FnMatch(name, pattern, dsk.os)}

\* glob.glob(...)[0]: any of the matches, which come in the order of the
\* directory listing; None stands for the IndexError of an empty list.
GlobFirst(dsk, pattern) ==
  IF Glob(dsk, pattern) = {} THEN {None} ELSE Glob(dsk, pattern)

---------------------------------------------------------------------------
(* CIM repository (CIMRepository) *)

RecursionLimit == 5

\* A generator body that enters the sub pages before it yields the keys.
FrameStepSubPagesFirst(frame) ==
  IF frame.sub_page <= Len(frame.index_page.sub_pages) THEN "descend"
  ELSE IF frame.key <= Len(frame.index_page.keys) THEN "yield"
  ELSE "return"

\* What the body of _GetKeysFromIndexPage does next at the position frame:
\* it yields the keys of the page, then enters its sub pages, then returns.
FrameStep(frame) ==
  IF frame.key <= Len(frame.index_page.keys) THEN "yield"
  ELSE IF frame.sub_page <= Len(frame.index_page.sub_pages) THEN "descend"
  ELSE "return"

\* A call of _GetKeysFromIndexPage(index_page) that has not run yet.
NewFrame(index_page) == [index_page |-> index_page, key |-> 1, sub_page |-> 1]

Ended(status, exc, ibt, rd) ==
  [status |-> status, value |-> exc, stack |-> <<>>, ibt |-> ibt, reads |-> rd]

\* One next() of the generators stack, innermost last, of
\* _GetKeysFromIndexPage: runs to the next yield, to the end of the outermost
\* generator or to an exception.  ibt is CIMRepository._index_binary_tree_file
\* and rd the sub page numbers GetMappedPage was called with.  A page that is None has no
\* keys attribute; the interpreter ends a recursion of more than
\* RecursionLimit generators with RecursionError.
RECURSIVE Resume(_, _, _, _)

\* The loop over index_page.sub_pages of the innermost generator, once
\* GetMappedPage(sub_page_number) ended as r: a generator for the sub page is
\* pushed and run.
Descend(stack, r, dsk, rd) ==
  IF r.outcome.kind = "raise"
  THEN Ended("raised", r.outcome.exc, r.ibt, rd)
  ELSE IF Len(stack) >= RecursionLimit
  THEN Ended("raised", "RecursionError", r.ibt, rd)
  ELSE Resume(Append([stack EXCEPT ![Len(stack)].sub_page = @ + 1],
                     NewFrame(r.outcome.value)),
              r.ibt, dsk, rd)

Resume(stack, ibt, dsk, rd) ==
  IF stack = <<>> THEN Ended("done", "", ibt, rd)
  ELSE
    LET top == stack[Len(stack)]
        step == IF top.index_page = None THEN "raise" ELSE FrameStep(top)
        sub_page_number == top.index_page.sub_pages[top.sub_page]
    IN  CASE step = "raise" -> Ended("raised", "AttributeError", ibt, rd)
          [] step = "yield" ->
               [status |-> "running", value |-> top.index_page.keys[top.key],
                stack |-> [stack EXCEPT ![Len(stack)].key = @ + 1],
                ibt |-> ibt, reads |-> rd]
          [] step = "descend" /\ ibt = None ->
               Ended("raised", "AttributeError", ibt, rd)
          [] step = "descend" /\ ibt # None ->
               Descend(stack,
                       IndexBinaryTreeFile_GetMappedPage(ibt, dsk, sub_page_number),
                       dsk,
                       Append(rd, sub_page_number))
          [] step = "return" ->
               Resume(SubSeq(stack, 1, Len(stack) - 1), ibt, dsk, rd)

\* GetKeys once GetRootPage ended as r: the generator of the root page is run.
GetKeysFromRootPage(r, dsk) ==
  IF r.outcome.kind = "raise"
  THEN Ended("raised", r.outcome.exc, r.ibt, <<>>)
  ELSE Resume(<<NewFrame(r.outcome.value)>>, r.ibt, dsk, <<>>)

\* The first next() of the generator GetKeys() returned: nothing is yielded
\* without an index binary-tree file, else the keys from the root page on.
GetKeysStart(ibt, dsk) ==
  IF ibt = None THEN Ended("done", "", ibt, <<>>)
  ELSE GetKeysFromRootPage(GetRootPage(ibt, dsk), dsk)

\* No generator object yet.  A generator object records whether the index
\* binary-tree file was bound when its body began to run (open) and whether
\* an enumeration had ended when GetKeys() returned it (later).
NoGenerator ==
  [status |-> "none", stack |-> <<>>, exc |-> "", open |-> FALSE,
   later |-> FALSE]

\* The bytes of Index.map and of Objects.map
IndexMapData(dsk) ==
  EncodeMappingRecord(dsk.index_map_header, dsk.index_mappings, <<>>,
                      _FOOTER_SIGNATURE)

ObjectsMapData(dsk) ==
  EncodeMappingRecord(dsk.objects_map_header, dsk.objects_mappings, <<>>,
                      _FOOTER_SIGNATURE)

\* IndexBinaryTreeFile.__init__ and Open
NewIndexBinaryTreeFile(mf, dsk) ==
  [kind |-> "IndexBinaryTreeFile", file_size |-> IndexFileSize(dsk), pos |-> 0,
   mappings |-> mf.mappings,
   first_mapped_page |-> None, root_page |-> None]

\* ObjectsDataFile.__init__ and Open
NewObjectsDataFile(mf, dsk) ==
  [kind |-> "ObjectsDataFile", file_size |-> dsk.objects_size, pos |-> 0,
   mappings |-> mf.mappings]

\* The file objects of the four files: none is open.
NoHandles ==
  [index_mapping |-> None, index_binary_tree |-> None,
   objects_mapping |-> None, objects_data |-> None]

\* A step of Open: a mappings file is parsed, a paged file is opened.
Step(op, role, file) == [op |-> op, role |-> role, file |-> file]

\* The file objects that the steps of an Open call leave open.
OpenHandles(steps) ==
  [role \in DOMAIN NoHandles |->
     IF \E k \in 1..Len(steps) : steps[k].role = role
     THEN steps[CHOOSE k \in 1..Len(steps) : steps[k].role = role].file
     ELSE None]

\* What an Open call leaves: the four attributes, the steps it took and how
\* it ended.
Opened(im, ibt, om, odf, steps, outcome) ==
  [index_mapping_file |-> im, index_binary_tree_file |-> ibt,
   objects_mapping_file |-> om, objects_data_file |-> odf,
   steps |-> steps, outcome |-> outcome]

\* An objects data file that is given the index mapping file.
ObjectsDataFile_IndexMapping(index_mapping, objects_mapping) == index_mapping

\* The mapping file Open constructs the objects data file with.
ObjectsDataFile_Mapping(index_mapping, objects_mapping) == objects_mapping

\* CIMRepository.Open in the directory dsk, where glob.glob(...)[0] gave the
\* names n and parsing Index.map and Objects.map ended as im and om: the
\* files are found and opened in turn, Index.map, Index.btr, Objects.map,
\* Objects.data, up to the first that is not found or cannot be parsed; an
\* attribute is bound before its file is opened.
CIMRepository_Open(dsk, n, im, om) ==
  LET ibt == NewIndexBinaryTreeFile(im.mf, dsk)
      odf == NewObjectsDataFile(ObjectsDataFile_Mapping(im.mf, om.mf), dsk)
      s1 == <<Step("parse", "index_mapping", n[1])>>
      s2 == Append(s1, Step("open", "index_binary_tree", n[2]))
      s3 == Append(s2, Step("parse", "objects_mapping", n[3]))
      s4 == Append(s3, Step("open", "objects_data", n[4]))
  IN  IF n[1] = None
      THEN Opened(None, None, None, None, <<>>, Raise("IndexError"))
      ELSE IF im.outcome.kind = "raise"
      THEN Opened(im.mf, None, None, None, s1, im.outcome)
      ELSE IF n[2] = None
      THEN Opened(im.mf, None, None, None, s1, Raise("IndexError"))
      ELSE IF n[3] = None
      THEN Opened(im.mf, ibt, None, None, s2, Raise("IndexError"))
      ELSE IF om.outcome.kind = "raise"
      THEN Opened(im.mf, ibt, om.mf, None, s3, om.outcome)
      ELSE IF n[4] = None
      THEN Opened(im.mf, ibt, om.mf, None, s3, Raise("IndexError"))
      ELSE Opened(im.mf, ibt, om.mf, odf, s4, Return(None))

\* CIMRepository.Open(path)
Open ==
  /\ index_mapping_file = None /\ index_binary_tree_file = None
  /\ objects_mapping_file = None /\ objects_data_file = None
  /\ \E n1 \in GlobFirst(disk, IndexMapPattern),
        n2 \in GlobFirst(disk, IndexBtrPattern),
        n3 \in GlobFirst(disk, ObjectsMapPattern),
        n4 \in GlobFirst(disk, ObjectsDataPattern),
        im \in {ReadFileObject(NewMappingFile, IndexMapData(disk), 0)},
        om \in {ReadFileObject(NewMappingFile, ObjectsMapData(disk), 0)} :
       \E r \in {CIMRepository_Open(disk, <<n1, n2, n3, n4>>, im, om)} :
         /\ index_mapping_file' = r.index_mapping_file
         /\ index_binary_tree_file' = r.index_binary_tree_file
         /\ objects_mapping_file' = r.objects_mapping_file
         /\ objects_data_file' = r.objects_data_file
         /\ handles' = OpenHandles(r.steps)
         /\ life' = [op |-> "Open", steps |-> r.steps, outcome |-> r.outcome]
  /\ first_enum' = NoCall
  /\ first_call' = NoCall
  /\ UNCHANGED <<python, disk, gen, yielded, reads, ret>>
  /\ UNCHANGED <<map_vars, page_vars>>

\* A Close that leaves the file object as it is.
IndexBinaryTreeFile_CloseNothing(file) == file

\* IndexBinaryTreeFile.Close: the file object is closed and let go.
IndexBinaryTreeFile_Close(file) == None

\* BinaryDataFile.Close of a mappings file or the objects data file: the file
\* object is closed and let go.
BinaryDataFile_Close(file) == None

\* The attributes Close finds bound, in the order it closes them.
Bound(ibt, im, odf, om) ==
  SelectSeq(<<[role |-> "index_binary_tree", object |-> ibt],
              [role |-> "index_mapping", object |-> im],
              [role |-> "objects_data", object |-> odf],
              [role |-> "objects_mapping", object |-> om]>>,
            LAMBDA a : a.object # None)

\* A Close() that closes the file objects and leaves the index binary-tree
\* file and the objects data file bound.
CloseLeavesBound ==
  /\ index_mapping_file' = None
  /\ objects_mapping_file' = None
  /\ handles' = NoHandles
  /\ life' = [op |-> "Close", steps |-> <<>>, outcome |-> Return(None)]
  /\ UNCHANGED <<python, disk, index_binary_tree_file, objects_data_file, gen,
                 yielded, reads, first_enum, ret, first_call>>
  /\ UNCHANGED <<map_vars, page_vars>>

\* CIMRepository.Close(): every attribute that is bound is closed and unbound.
Close ==
  /\ index_binary_tree_file' = None
  /\ index_mapping_file' = None
  /\ objects_data_file' = None
  /\ objects_mapping_file' = None
  /\ handles' =
       [index_binary_tree |->
          IF index_binary_tree_file # None
          THEN IndexBinaryTreeFile_Close(handles.index_binary_tree)
          ELSE handles.index_binary_tree,
        index_mapping |->
          IF index_mapping_file # None
          THEN BinaryDataFile_Close(handles.index_mapping)
          ELSE handles.index_mapping,
        objects_data |->
          IF objects_data_file # None
          THEN BinaryDataFile_Close(handles.objects_data)
          ELSE handles.objects_data,
        objects_mapping |->
          IF objects_mapping_file # None
          THEN BinaryDataFile_Close(handles.objects_mapping)
          ELSE handles.objects_mapping]
  /\ \E b \in {Bound(index_binary_tree_file, index_mapping_file,
                      objects_data_file, objects_mapping_file)} :
       life' = [op |-> "Close",
                steps |-> [k \in 1..Len(b) |-> Step("close", b[k].role, None)],
                outcome |-> Return(None)]
  /\ UNCHANGED <<python, disk, gen, yielded, reads, first_enum, ret,
                 first_call>>
  /\ UNCHANGED <<map_vars, page_vars>>

\* CIMRepository.GetKeys(): a generator object; nothing of it has run yet.
GetKeys ==
  /\ gen' = [status |-> "new", stack |-> <<>>, exc |-> "", open |-> FALSE,
             later |-> first_enum # NoCall]
  /\ yielded' = <<>>
  /\ reads' = <<>>
  /\ UNCHANGED <<python, disk, index_mapping_file, index_binary_tree_file,
                 objects_mapping_file, objects_data_file, handles, life,
                 first_enum, ret, first_call>>
  /\ UNCHANGED <<map_vars, page_vars>>

\* next() of the generator: a key is yielded, or the enumeration ends.
GetKeysNext ==
  /\ gen.status \in {"new", "running"}
  /\ \E r \in { IF gen.status = "new"
                  THEN GetKeysStart(index_binary_tree_file, disk)
                  ELSE Resume(gen.stack, index_binary_tree_file, disk, reads) } :
     LET keys == IF r.status = "running" THEN Append(yielded, r.value)
                 ELSE yielded
         exc == IF r.status = "raised" THEN r.value ELSE ""
     IN  /\ gen' = [gen EXCEPT
                      !.status = r.status, !.stack = r.stack, !.exc = exc,
                      !.open = IF gen.status = "new"
                               THEN index_binary_tree_file # None ELSE @]
         /\ yielded' = keys
         /\ reads' = r.reads
         /\ index_binary_tree_file' = r.ibt
         /\ first_enum' =
              IF r.status # "running" /\ first_enum = NoCall
              THEN [kind |-> "enumeration", keys |-> keys,
                    status |-> r.status, exc |-> exc]
              ELSE first_enum
  /\ UNCHANGED <<python, disk, index_mapping_file, objects_mapping_file,
                 objects_data_file, handles, life, ret, first_call>>
  /\ UNCHANGED <<map_vars, page_vars>>

\* IndexBinaryTreeFile.GetRootPage() of the open repository
CallGetRootPage ==
  /\ index_binary_tree_file # None
  /\ \E r \in {GetRootPage(index_binary_tree_file, disk)} :
       index_binary_tree_file' = r.ibt
  /\ UNCHANGED <<python, disk, index_mapping_file, objects_mapping_file,
                 objects_data_file, handles, life, gen, yielded, reads,
                 first_enum, ret, first_call>>
  /\ UNCHANGED <<map_vars, page_vars>>

\* IndexBinaryTreeFile.GetFirstMappedPage() of the open repository
CallGetFirstMappedPage ==
  /\ index_binary_tree_file # None
  /\ \E r \in {GetFirstMappedPage(index_binary_tree_file, disk)} :
       index_binary_tree_file' = r.ibt
  /\ UNCHANGED <<python, disk, index_mapping_file, objects_mapping_file,
                 objects_data_file, handles, life, gen, yielded, reads,
                 first_enum, ret, first_call>>
  /\ UNCHANGED <<map_vars, page_vars>>

\* CIMRepository.GetObjectRecordByKey(key)
GetObjectRecordByKey(key) ==
  /\ \E r \in {CIMRepository_GetObjectRecordByKey(
                   objects_data_file, disk, python, key)} :
     LET call == [kind |-> "call", key |-> key,
                  open |-> objects_data_file # None,
                  later |-> first_call # NoCall, outcome |-> r.outcome]
     IN  /\ objects_data_file' = r.odf
         /\ ret' = call
         /\ first_call' = IF first_call = NoCall THEN call ELSE first_call
  /\ UNCHANGED <<python, disk, index_mapping_file, index_binary_tree_file,
                 objects_mapping_file, handles, life, gen, yielded,
                 reads, first_enum>>
  /\ UNCHANGED <<map_vars, page_vars>>

---------------------------------------------------------------------------
(* The repositories and keys the operations are run on *)

Descriptor(identifier, data_offset, data_size) ==
  [identifier |-> identifier, data_offset |-> data_offset,
   data_size |-> data_size]

Key(locator) ==
  <<_KEY_SEGMENT_SEPARATOR>> \o Namespace \o <<_KEY_SEGMENT_SEPARATOR>>
    \o locator

\* The names Windows gives the four files
INDEX_MAP == <<"I", "N", "D", "E", "X", ".", "M", "A", "P">>

INDEX_BTR == <<"I", "N", "D", "E", "X", ".", "B", "T", "R">>

OBJECTS_MAP == <<"O", "B", "J", "E", "C", "T", "S", ".", "M", "A", "P">>

OBJECTS_DATA == <<"O", "B", "J", "E", "C", "T", "S", ".", "D", "A", "T", "A">>

\* A directory of the four files under their upper-case names, with an index
\* of an administrative page and a root page of two keys, and object records
\* of 12288 bytes that begin in the middle of a page.
DefaultDisk ==
  [family |-> "default",
   index_mappings |-> <<0, 1>>, index_pages |-> 2,
   os |-> "posix",
   names |-> {INDEX_MAP, INDEX_BTR, OBJECTS_MAP, OBJECTS_DATA},
   index_map_header |-> _HEADER_SIGNATURE,
   objects_map_header |-> _HEADER_SIGNATURE,
   admin_type |-> PAGE_TYPE_ADMINISTRATIVE, root_page_number |-> 1,
   children1 |-> <<0, 0, 0>>, children2 |-> <<0, UNAVAILABLE>>,
   objects_mappings |-> <<0, 1>>, objects_size |-> 2 * PAGE_SIZE,
   descriptors |-> <<Descriptor(7, 4096, 12288)>>,
   after_terminator |-> <<>>]

IndexMappings ==
  {<<0, 1, 2, 3>>, <<0, 2, 1, 3>>, <<0, 1, UNAVAILABLE, 3>>, <<0, 1, 2>>}

Children1 ==
  {<<0, 0, 0>>, <<2, 3, 0>>, <<2, UNAVAILABLE, 3>>, <<3, 2, 0>>, <<1, 0, 0>>,
   <<3, 0, 3>>}

Children2 == {<<0, UNAVAILABLE>>, <<3, 0>>, <<1, 0>>}

\* Repositories that differ in their index: in the mappings, the length of
\* Index.btr and the sub pages, in the first mapped page, or in mappings
\* that send the first mapped page or the root page beyond the end of
\* Index.btr.
IndexDisks ==
  { [DefaultDisk EXCEPT !.family = "index", !.index_mappings = m,
       !.index_pages = n, !.children1 = c1, !.children2 = c2] :
      m \in IndexMappings, n \in {3, 4}, c1 \in Children1, c2 \in Children2 }
  \cup
  { [DefaultDisk EXCEPT !.family = "index", !.index_mappings = <<0, 1, 2, 3>>,
       !.index_pages = 4, !.admin_type = t, !.root_page_number = r,
       !.children1 = <<2, 3, 0>>] :
      t \in {PAGE_TYPE_ADMINISTRATIVE, PAGE_TYPE_ACTIVE}, r \in {1, 2, 7} }
  \cup
  { [DefaultDisk EXCEPT !.family = "index", !.index_mappings = m,
       !.index_pages = 4, !.children1 = <<2, 3, 0>>] :
      m \in {<<1, 0, 2, 3>>, <<5, 1, 2, 3>>, <<0, 6, 2, 3>>} }

DataOffsets == {0, 4096, PAGE_SIZE, PAGE_SIZE + 1, 9000}

DataSizes == {100, 12288}

ObjectDescriptors ==
  {<<>>, <<Descriptor(7, 0, 50), Descriptor(7, 0, 100)>>,
   <<Descriptor(8, 0, 100), Descriptor(7, 4096, 12288)>>}
    \cup {<<Descriptor(7, d, s)>> : d \in DataOffsets, s \in DataSizes}

ObjectsMappings ==
  {<<0, 1>>, <<1, 0>>, <<0, UNAVAILABLE>>, <<0>>, <<UNAVAILABLE, 2>>}

ObjectsSizes == {PAGE_SIZE, PAGE_SIZE + 4096, 2 * PAGE_SIZE, 3 * PAGE_SIZE}

\* Repositories that differ in their object records: in the descriptors and
\* the length of Objects.data, or in the mappings of Objects.map.
ObjectsDisks ==
  { [DefaultDisk EXCEPT !.family = "objects", !.objects_size = n,
       !.descriptors = d] :
      n \in ObjectsSizes, d \in ObjectDescriptors }
  \cup
  { [DefaultDisk EXCEPT !.family = "objects",
       !.descriptors = <<Descriptor(8, 0, 100)>>,
       !.after_terminator = <<Descriptor(7, 0, 100)>>] }
  \cup
  { [DefaultDisk EXCEPT !.family = "objects", !.objects_mappings = m,
       !.objects_size = n] :
      m \in ObjectsMappings, n \in {2 * PAGE_SIZE, 3 * PAGE_SIZE} }

\* The repositories that are also read by Python 2: those with a record that
\* begins beyond its page.
Python2Disks ==
  { dsk \in ObjectsDisks :
      \E i \in 1..Len(dsk.descriptors) :
        dsk.descriptors[i].data_offset > PAGE_SIZE }

\* The default repository, read with every key.
KeysDisks ==
  { [DefaultDisk EXCEPT !.family = "keys", !.objects_mappings = m] :
      m \in {<<0, 1>>, <<0, UNAVAILABLE>>} }

\* Keys without a locator: no '.', three fields, five fields, a page number
\* that is no number.
MalformedKeys ==
  { Key(NameA), Key(NameA \o <<".", "0", ".", "7">>),
    Key(NameA \o <<".", "x", ".", "7", ".", "1", "0", "0">>) }

\* Keys whose locator is to be told from the rest of the key: a key without
\* separator and without '_' in its name; a key with a locator in a segment
\* that is not the last; a key with '.' in an earlier segment; keys whose
\* identifier or data size is no integer.
LocatorKeys ==
  { Locator(<<"X">>, 0, 7, 12288),
    <<_KEY_SEGMENT_SEPARATOR>> \o Locator(NameA, 0, 7, 12288)
      \o <<_KEY_SEGMENT_SEPARATOR>> \o NameB,
    <<_KEY_SEGMENT_SEPARATOR, "A", ".", "B", _KEY_SEGMENT_SEPARATOR>>
      \o Locator(NameA, 0, 7, 12288),
    Key(NameA \o <<".", "0", ".", "y", ".", "1", "0", "0">>),
    Key(NameA \o <<".", "0", ".", "7", ".", "1", "x">>) }

\* The keys GetObjectRecordByKey is called with on a repository.
KeyInputs(dsk) ==
  CASE dsk.family = "objects" ->
         { Key(Locator(NameA, 0, 7, 100)), Key(Locator(NameA, 0, 7, 12288)),
           Key(Locator(NameA, 1, 7, 100)) }
    [] dsk.family = "keys" ->
         { Key(Locator(NameA, 0, 7, 12288)), Key(Locator(NameA, 1, 7, 100)),
           Key(Locator(NameA, 2, 7, 100)),
           Key(NameA \o <<".", "-", "1", ".", "7", ".", "1", "0", "0">>),
           Key(NameA \o <<".", "-", "1", ".", "7", ".", "1", "2", "2", "8",
                           "8">>) }
           \cup MalformedKeys \cup LocatorKeys
    [] OTHER ->
         { Key(Locator(NameA, 0, 7, 12288)), Key(Locator(NameC, 0, 8, 100)) }

\* A name with its first letter as it is and the others in lower case
Capitalised(name) ==
  [i \in 1..Len(name) |-> IF i = 1 THEN name[i] ELSE Lower(name[i])]

\* Directories of four files: the upper-case names; one of the names in
\* lower case or capitalised (Objects.data); a data file whose name has
\* another letter, an index mappings file whose name has no '.', and no
\* objects mappings file at all.
Directories ==
  {DefaultDisk.names}
    \cup { (DefaultDisk.names \ {name}) \cup {LowerName(name)} :
             name \in DefaultDisk.names }
    \cup { (DefaultDisk.names \ {name}) \cup {Capitalised(name)} :
             name \in DefaultDisk.names }
    \cup { (DefaultDisk.names \ {OBJECTS_DATA})
             \cup {[OBJECTS_DATA EXCEPT ![9] = "a"]},
           (DefaultDisk.names \ {INDEX_MAP})
             \cup {[INDEX_MAP EXCEPT ![6] = "_"]},
           DefaultDisk.names \ {OBJECTS_MAP} }

\* Repositories that differ in the names of their files and in the operating
\* system, or in the header signature of a mappings file, and one whose root
\* page has a sub page.
LifecycleDisks ==
  { [DefaultDisk EXCEPT !.family = "lifecycle", !.objects_mappings = <<1, 0>>,
       !.os = os, !.names = names] :
      os \in {"posix", "nt"}, names \in Directories }
  \cup
  { [DefaultDisk EXCEPT !.family = "lifecycle", !.objects_mappings = <<1, 0>>,
       !.index_map_header = h[1], !.objects_map_header = h[2]] :
      h \in {<<52651, _HEADER_SIGNATURE>>, <<_HEADER_SIGNATURE, 52651>>} }
  \cup
  { [DefaultDisk EXCEPT !.family = "lifecycle", !.index_mappings = <<0, 1, 2>>,
       !.index_pages = 3, !.children1 = <<2, 0, 0>>] }

\* CIMRepository.__init__ in a directory that holds the files dsk.
RepoInit(disks, pythons) ==
  /\ python \in pythons
  /\ disk \in disks
  /\ index_mapping_file = None
  /\ index_binary_tree_file = None
  /\ objects_mapping_file = None
  /\ objects_data_file = None
  /\ handles = NoHandles
  /\ life = [op |-> "init", steps |-> <<>>, outcome |-> Return(None)]
  /\ gen = NoGenerator
  /\ yielded = <<>>
  /\ reads = <<>>
  /\ first_enum = NoCall
  /\ ret = NoCall
  /\ first_call = NoCall

MapIdle ==
  /\ file_object = [data |-> <<>>, pos |-> 0]
  /\ mapping_file = NewMappingFile
  /\ map_ret = NoCall
  /\ map_prev = NoCall

RepoNext ==
  \/ Open
  \/ GetKeys
  \/ GetKeysNext
  \/ CallGetRootPage
  \/ CallGetFirstMappedPage
  \/ \E key \in KeyInputs(disk) : GetObjectRecordByKey(key)

\* A repository whose index varies
InitIndex == RepoInit(IndexDisks, {3}) /\ MapIdle /\ PageIdle

SpecIndex == InitIndex /\ [][RepoNext]_vars

\* A repository whose objects data varies
InitObjects ==
  /\ \/ RepoInit(ObjectsDisks \cup KeysDisks, {3})
     \/ RepoInit(Python2Disks, {2})
  /\ MapIdle
  /\ PageIdle

SpecObjects == InitObjects /\ [][RepoNext]_vars

\* A repository that is opened and closed
InitLifecycle == RepoInit(LifecycleDisks, {3}) /\ MapIdle /\ PageIdle

LifecycleNext == RepoNext \/ Close

SpecLifecycle == InitLifecycle /\ [][LifecycleNext]_vars

\* A mappings file that is read record by record
InitMap == RepoInit({DefaultDisk}, {3}) /\ MapInit /\ PageIdle

SpecMap == InitMap /\ [][MapNext]_vars

\* An index page whose bytes vary, read under Python 2 and Python 3
InitPage == RepoInit({DefaultDisk}, {2, 3}) /\ MapIdle /\ PageInit

SpecPage == InitPage /\ [][PageNext]_vars

---------------------------------------------------------------------------
(* Object record retrieval: what the last GetObjectRecordByKey call was given *)

\* The last call was made on the open repository.
Called == ret.kind = "call" /\ ret.open

\* The locator of the key of the last call, None when it has none.
RetLocator == _GetKeyValues(ret.key, python)

\* Logical page n of the objects mapping table names a physical page that
\* begins inside Objects.data.
ObjectsPagePresent(dsk, n) ==
  /\ 0 <= n
  /\ n < Len(dsk.objects_mappings)
  /\ dsk.objects_mappings[n + 1] * PAGE_SIZE < dsk.objects_size

\* Logical page n names a physical page that lies wholly inside Objects.data.
ObjectsPageWhole(dsk, n) ==
  /\ ObjectsPagePresent(dsk, n)
  /\ (dsk.objects_mappings[n + 1] + 1) * PAGE_SIZE <= dsk.objects_size

\* The positions in the descriptor table of the descriptors with identifier id.
WithIdentifier(table, id) == {i \in 1..Len(table) : table[i].identifier = id}

\* The first descriptor of the table with identifier id.
FirstWithIdentifier(table, id) ==
  table[CHOOSE i \in WithIdentifier(table, id) :
          \A j \in WithIdentifier(table, id) : i <= j]

\* The number of pages after the first that a record of size bytes at
\* data_offset of its first page continues on.
ContinuationPages(data_offset, size) ==
  LET first == Min(size, PAGE_SIZE - data_offset)
  IN  (size - first + PAGE_SIZE - 1) \div PAGE_SIZE

\* The last call returned an object record of n bytes.
ReturnedRecordOf(n) ==
  /\ ret.outcome.kind = "return"
  /\ ret.outcome.value # None
  /\ DataLength(ret.outcome.value.data) = n

\* The key of the last call has a locator PAGE.ID.SIZE, and the objects page
\* PAGE is mapped to holds a descriptor with identifier ID and data size SIZE.
LocatesDescriptor ==
  /\ Called
  /\ RetLocator # None
  /\ ObjectsPagePresent(disk, RetLocator.page_number)
  /\ \E i \in WithIdentifier(disk.descriptors, RetLocator.record_identifier) :
       disk.descriptors[i].data_size = RetLocator.data_size

ReturnedNone == ret.outcome = Return(None)

\* C3: for a key whose final segment is not of the shape NAME.PAGE.ID.SIZE (no
\* '.', a number of fields other than four, a PAGE that is no decimal
\* integer) GetObjectRecordByKey on the open repository returns None and
\* raises no exception.
C3_MalformedKeyReturnsNone ==
  (Called /\ ret.key \in MalformedKeys) => ReturnedNone

\* The record of the last call begins on a page the objects mapping table
\* names and that begins inside Objects.data, and continues after it on a
\* page that is missing.
ContinuationPageMissing ==
  /\ LocatesDescriptor
  /\ FirstWithIdentifier(disk.descriptors,
                         RetLocator.record_identifier).data_size
       = RetLocator.data_size
  /\ FirstWithIdentifier(disk.descriptors,
                         RetLocator.record_identifier).data_offset < PAGE_SIZE
  /\ RetLocator.data_size
       > PAGE_SIZE - FirstWithIdentifier(
                       disk.descriptors,
                       RetLocator.record_identifier).data_offset
  /\ ~ObjectsPagePresent(disk, RetLocator.page_number + 1)

\* C4: when the logical page the locator of the key names, or a continuation
\* page of the record, is missing (outside the objects mapping table, mapped
\* to 0xffffffff, or mapped to a page at or beyond the end of Objects.data),
\* GetObjectRecordByKey returns None and raises no exception.
C4_MissingPageReturnsNone ==
  ( /\ Called
    /\ RetLocator # None
    /\ \/ ~ObjectsPagePresent(disk, RetLocator.page_number)
       \/ ContinuationPageMissing )
    => ReturnedNone

\* C5: when the objects page the locator names holds no descriptor with the
\* identifier of the locator, or the descriptor with that identifier has
\* another data size than the locator, GetObjectRecordByKey returns None and
\* raises no exception.
C5_NoDescriptorReturnsNone ==
  ( /\ Called
    /\ RetLocator # None
    /\ ObjectsPageWhole(disk, RetLocator.page_number)
    /\ \A i \in WithIdentifier(disk.descriptors,
                               RetLocator.record_identifier) :
         disk.descriptors[i].data_size # RetLocator.data_size )
    => ReturnedNone

\* A call on the open repository ended the way the first call since Open
\* with the same key did: the same data type and bytes, None or exception.
C9_SameOutcome ==
  (Called /\ first_call.kind = "call" /\ first_call.key = ret.key) =>
    ret.outcome = first_call.outcome

\* A call, which ret records afterwards, leaves the mapping tables and the
\* cached pages as they were.
C9_NothingCached ==
  (ret'.kind = "call" /\ GetObjectRecordByKey(ret'.key)) =>
    /\ index_mapping_file' = index_mapping_file
    /\ objects_mapping_file' = objects_mapping_file
    /\ index_binary_tree_file' = index_binary_tree_file
    /\ objects_data_file # None =>
         objects_data_file'.mappings = objects_data_file.mappings

\* C9: GetObjectRecordByKey(k) is pure: calls with the same key on the open
\* repository return the same bytes with the same data type, and a call
\* changes neither the mapping tables nor a cached page.
C9_Pure == []C9_SameOutcome /\ [][C9_NothingCached]_vars

\* A key was read again, after other reads had moved the cursor of
\* Objects.data and the root page had been cached, and the call returned the
\* record of two segments the first call had returned.
C9_Witness ==
  /\ Called
  /\ ret.later
  /\ first_call.key = ret.key
  /\ ret.outcome.kind = "return"
  /\ ret.outcome.value # None
  /\ Len(ret.outcome.value.data) = 2
  /\ ret.outcome = first_call.outcome
  /\ index_binary_tree_file.root_page # None

---------------------------------------------------------------------------
(* Key enumeration: the tree the files of the repository hold *)

\* The page of Index.btr that logical page n names, None when n is outside
\* the index mapping table or names no page inside the file.
TreePage(dsk, n) ==
  IF n < 0 \/ n >= Len(dsk.index_mappings) THEN None
  ELSE IF dsk.index_mappings[n + 1] >= dsk.index_pages THEN None
  ELSE IndexPagesOnDisk(dsk)[dsk.index_mappings[n + 1] + 1]

\* The child pointers of a page: the entries of its sub pages array that name
\* a page, in array order.
Children(page) ==
  SelectSeq(page.sub_pages_array, LAMBDA n : n # 0 /\ n # UNAVAILABLE)

\* The keys of a page in their on-page order.
PageKeys(page) ==
  [k \in 1..page.number_of_keys |->
     KeyPath(page.page_key_segments[k], page.page_values)]

\* The logical number of the root page, -1 when the first mapped page is not
\* an administrative page that names one.
TreeRoot(dsk) ==
  LET first == TreePage(dsk, 0)
  IN  IF first = None THEN -1
      ELSE IF first.page_type # PAGE_TYPE_ADMINISTRATIVE THEN -1
      ELSE IF TreePage(dsk, first.root_page_number) = None THEN -1
      ELSE first.root_page_number

\* The logical pages within depth levels below and including page n, a
\* missing page counted as none.
RECURSIVE Reachable(_, _, _)
Reachable(dsk, n, depth) ==
  IF depth = 0 \/ TreePage(dsk, n) = None THEN {}
  ELSE {n} \cup UNION { Reachable(dsk, Children(TreePage(dsk, n))[i], depth - 1) :
                          i \in 1..Len(Children(TreePage(dsk, n))) }

\* The keys of the subtree of logical page n in pre-order, to depth levels:
\* the keys of the page, then the subtree of each child in array order; a
\* child that names no page adds nothing.
RECURSIVE PreOrder(_, _, _)
PreOrder(dsk, n, depth) ==
  IF depth = 0 \/ TreePage(dsk, n) = None THEN <<>>
  ELSE PageKeys(TreePage(dsk, n))
         \o Concat([i \in 1..Len(Children(TreePage(dsk, n))) |->
                      PreOrder(dsk, Children(TreePage(dsk, n))[i], depth - 1)])

\* The keys of the repository in pre-order from the root page on.
TreeKeys(dsk) ==
  IF TreeRoot(dsk) < 0 THEN <<>>
  ELSE PreOrder(dsk, TreeRoot(dsk), RecursionLimit)

IsPrefix(s, t) == Len(s) <= Len(t) /\ s = SubSeq(t, 1, Len(s))

\* C2: the keys GetKeys() has yielded so far are a prefix of the pre-order of
\* the tree (the keys of a page in page order, then the whole subtree of each
\* sub page in array order), and they are the whole pre-order when the
\* enumeration has ended without an exception.
C2_PreOrder ==
  (gen.status \in {"running", "done", "raised"} /\ gen.open) =>
    /\ IsPrefix(yielded, TreeKeys(disk))
    /\ gen.status = "done" => yielded = TreeKeys(disk)

\* An enumeration has ended that went from the root page into two further
\* pages and yielded the keys of three pages.
C2_Witness ==
  /\ gen.status = "done"
  /\ gen.open
  /\ Len(reads) >= 2
  /\ Len(yielded) >= 4
  /\ yielded = TreeKeys(disk)

\* The logical pages an enumeration of the subtree of page n enters, in the
\* order it enters them, to depth levels.
RECURSIVE Visits(_, _, _)
Visits(dsk, n, depth) ==
  IF depth = 0 \/ TreePage(dsk, n) = None THEN <<>>
  ELSE <<n>> \o Concat([i \in 1..Len(Children(TreePage(dsk, n))) |->
                          Visits(dsk, Children(TreePage(dsk, n))[i], depth - 1)])

\* The child pointers form a tree below a root page that is there: no page is
\* entered twice, however deep the pointers are followed.
IsTree(dsk) ==
  /\ TreeRoot(dsk) >= 0
  /\ LET v == Visits(dsk, TreeRoot(dsk), Len(dsk.index_mappings) + 1)
     IN  \A i, j \in 1..Len(v) : v[i] = v[j] => i = j

\* The pages of the tree.
TreePages(dsk) == Reachable(dsk, TreeRoot(dsk), Len(dsk.index_mappings) + 1)

\* A page of the tree has a child pointer that names no page: it is outside
\* the index mapping table, or mapped to 0xffffffff or to a page at or beyond
\* the end of Index.btr.
HasMissingChild(dsk) ==
  \E n \in TreePages(dsk) :
    \E i \in 1..Len(Children(TreePage(dsk, n))) :
      TreePage(dsk, Children(TreePage(dsk, n))[i]) = None

\* The pages the generator has entered: the root page and the sub pages.
Visited == {TreeRoot(disk)} \cup {reads[i] : i \in 1..Len(reads)}

\* C6: on a tree of which a page has a missing child, GetKeys() raises
\* nothing and skips that child: when the enumeration has ended, every key of
\* the pages that are there has been yielded.
C6_MissingChildSkipped ==
  (gen.open /\ IsTree(disk) /\ HasMissingChild(disk)) =>
    /\ gen.status # "raised"
    /\ gen.status = "done" => yielded = TreeKeys(disk)

\* While a generator runs on a tree without missing children it has raised
\* nothing, has yielded no more keys than the tree holds and is no deeper
\* than the tree has pages; when it has ended it has entered every page of
\* the tree.
C7_Bounded ==
  ( /\ gen.status \in {"running", "done", "raised"}
    /\ gen.open
    /\ IsTree(disk)
    /\ ~HasMissingChild(disk) ) =>
      /\ gen.status # "raised"
      /\ Len(yielded) <= Len(TreeKeys(disk))
      /\ Len(gen.stack) <= Cardinality(TreePages(disk))
      /\ Visited \subseteq TreePages(disk)
      /\ gen.status = "done" => Visited = TreePages(disk)

\* A next() of such a generator yields one more key or ends the enumeration.
C7_Progress ==
  ( /\ GetKeysNext
    /\ gen'.open
    /\ IsTree(disk)
    /\ ~HasMissingChild(disk) ) =>
      \/ gen'.status = "running" /\ Len(yielded') = Len(yielded) + 1
      \/ gen'.status = "done" /\ yielded' = yielded

\* C7: on an index whose child pointers form a tree of finitely many pages,
\* a GetKeys() enumeration that is consumed ends: every next() yields a key
\* or ends it, no more keys are yielded than the tree holds, and it ends
\* only after it has entered every page of the tree.
C7_Terminates == []C7_Bounded /\ [][C7_Progress]_vars

\* An enumeration of a tree of three pages has ended.
C7_Witness ==
  /\ gen.status = "done"
  /\ gen.open
  /\ IsTree(disk)
  /\ ~HasMissingChild(disk)
  /\ Cardinality(TreePages(disk)) = 3
  /\ Visited = TreePages(disk)

\* C8: an enumeration of the open repository that has ended has yielded the
\* keys, in the order, and has ended the way of the first enumeration that
\* ended since the repository was opened.
C8_SameEnumeration ==
  ( /\ gen.status \in {"done", "raised"}
    /\ gen.open
    /\ first_enum.kind = "enumeration" ) =>
      /\ yielded = first_enum.keys
      /\ gen.status = first_enum.status
      /\ gen.exc = first_enum.exc

\* A generator that GetKeys() returned after an enumeration had ended has
\* yielded the keys of several pages and ended; a record was read and the
\* root page is cached.
C8_Witness ==
  /\ gen.status = "done"
  /\ gen.open
  /\ gen.later
  /\ Len(yielded) >= 3
  /\ yielded = first_enum.keys
  /\ ret.kind = "call"
  /\ ret.open
  /\ index_binary_tree_file.root_page # None

---------------------------------------------------------------------------
(* Mappings file: what the bytes of the file say *)

\* The uint32le value at offset off of the file.
WordAt(off) ==
  file_object.data[off + 1] + 256 * file_object.data[off + 2]
    + 65536 * file_object.data[off + 3] + 16777216 * file_object.data[off + 4]

\* The count of the primary table of the record at offset f, and of the
\* secondary table after it.
PrimaryCount(f) == WordAt(f + 12)

SecondaryCount(f) == WordAt(f + 16 + 4 * PrimaryCount(f))

\* C10: after ReadFileObject has parsed a mapping record from the cursor
\* position f, data_size is the bytes consumed, 24 + 4 x (primary count +
\* secondary count) = final cursor - f, and mappings holds the entries of the
\* primary table in order; the record was parsed where the header signature
\* is, which after a parsed record is at f + data_size of that record.
C10_DataSize ==
  map_ret.kind = "return" =>
    /\ map_ret.data_size
         = 24 + 4 * (PrimaryCount(map_ret.f) + SecondaryCount(map_ret.f))
    /\ map_ret.data_size = file_object.pos - map_ret.f
    /\ mapping_file.data_size = map_ret.data_size
    /\ mapping_file.mappings
         = [i \in 1..PrimaryCount(map_ret.f) |-> WordAt(map_ret.f + 12 + 4 * i)]
    /\ WordAt(map_ret.f) = _HEADER_SIGNATURE
    /\ map_prev.kind = "return" => map_ret.f = map_prev.f + map_prev.data_size

\* A record with a primary table of two entries and a secondary table of one
\* was parsed at offset 0, and after it the next record, with a primary table
\* of one entry, at data_size.
C10_Witness ==
  /\ map_ret.kind = "return"
  /\ map_prev.kind = "return"
  /\ map_prev.f = 0
  /\ map_prev.data_size = 36
  /\ map_ret.f = 36
  /\ Len(mapping_file.mappings) = 1
  /\ map_ret.data_size = 28

\* The file holds n bytes from offset off on.
Holds(off, n) == off + n <= Len(file_object.data)

\* The offset of the footer of the record at offset f.
FooterOffset(f) == f + 20 + 4 * (PrimaryCount(f) + SecondaryCount(f))

\* The file holds a whole record at offset f: a header with the signature
\* 0x0000abcd, two tables whose count and entries are there in full, and a
\* footer with the signature 0x0000dcba.
RecordInFull(f) ==
  /\ Holds(f, 12)
  /\ WordAt(f) = _HEADER_SIGNATURE
  /\ Holds(f + 12, 4)
  /\ Holds(f + 16, 4 * PrimaryCount(f))
  /\ Holds(f + 16 + 4 * PrimaryCount(f), 4)
  /\ Holds(f + 20 + 4 * PrimaryCount(f), 4 * SecondaryCount(f))
  /\ Holds(FooterOffset(f), 4)
  /\ WordAt(FooterOffset(f)) = _FOOTER_SIGNATURE

\* C11: ReadFileObject at offset f fails, and then with ParseError, when the
\* header signature is not 0x0000abcd, when the footer signature is not
\* 0x0000dcba, and when the count or the entries of either table cannot be
\* read in full; it succeeds only when the record is there in full with both
\* signatures.
C11_FormatError ==
  map_ret.kind # "no call" =>
    /\ map_ret.kind = "raise" <=> ~RecordInFull(map_ret.f)
    /\ map_ret.kind = "raise" => map_ret.exc = "ParseError"

\* The second record of a file was refused for the entries of its primary
\* table, of which the file holds a part, after the first had been parsed.
C11_Witness ==
  /\ map_ret.kind = "raise"
  /\ map_ret.exc = "ParseError"
  /\ map_prev.kind = "return"
  /\ map_ret.f > 0
  /\ WordAt(map_ret.f) = _HEADER_SIGNATURE
  /\ Holds(map_ret.f + 12, 4)
  /\ PrimaryCount(map_ret.f) > 0
  /\ ~Holds(map_ret.f + 16, 4 * PrimaryCount(map_ret.f))
  /\ Holds(map_ret.f + 16, 1)

---------------------------------------------------------------------------
(* Opening and closing the repository *)

\* The repository is not open: it has not been opened yet, or the last of
\* Open and Close to be called was Close.
NotOpen == life.op \in {"init", "Close"}

\* While the repository is not open none of the four attributes is bound and
\* none of the four file objects is open.
C12_Closed ==
  NotOpen =>
    /\ index_mapping_file = None
    /\ index_binary_tree_file = None
    /\ objects_mapping_file = None
    /\ objects_data_file = None
    /\ handles = NoHandles

\* What the methods do while the repository is not open: the body of a
\* GetKeys() generator ends at once, a GetObjectRecordByKey call returns
\* None, and Close changes nothing.
C12_NotOpenStep ==
  NotOpen =>
    /\ (GetKeysNext /\ gen.status = "new") =>
         gen'.status = "done" /\ yielded' = <<>>
    /\ (ret'.kind = "call" /\ GetObjectRecordByKey(ret'.key)) =>
         ret'.outcome = Return(None)
    /\ Close =>
         UNCHANGED <<index_mapping_file, index_binary_tree_file,
                     objects_mapping_file, objects_data_file, handles, gen,
                     yielded, ret>>

\* C12: after Close() has returned the index mapping, the index binary-tree
\* file, the objects mapping and the objects data file are closed and
\* unbound; while the repository is not open (before Open, after Close)
\* GetKeys() yields nothing, GetObjectRecordByKey(key) returns None for every
\* key and a further Close() changes nothing.
C12_CloseUnbinds == []C12_Closed /\ [][C12_NotOpenStep]_vars

\* A repository whose four files were open has been closed: since then a
\* GetKeys() generator has ended without a key and a key that had named a
\* record returned None.
C12_Witness ==
  /\ life.op = "Close"
  /\ Len(life.steps) = 4
  /\ handles = NoHandles
  /\ first_enum.kind = "enumeration"
  /\ Len(first_enum.keys) > 0
  /\ gen.later /\ ~gen.open /\ gen.status = "done" /\ yielded = <<>>
  /\ first_call.kind = "call" /\ first_call.open
  /\ first_call.outcome.kind = "return"
  /\ ret.kind = "call" /\ ret.later /\ ~ret.open
  /\ ret.key = first_call.key
  /\ ret.outcome = Return(None)

\* The four names, in the order Open looks for them.
FileNames == <<INDEX_MAP, INDEX_BTR, OBJECTS_MAP, OBJECTS_DATA>>

\* Two names that differ in letter case at most.
SameButCase(a, b) == LowerName(a) = LowerName(b)

\* The directory holds each of the four files under some spelling of its
\* name, and both mappings files begin with the header signature.
FourFilesThere(dsk) ==
  /\ \A k \in 1..4 : \E name \in dsk.names : SameButCase(name, FileNames[k])
  /\ dsk.index_map_header = _HEADER_SIGNATURE
  /\ dsk.objects_map_header = _HEADER_SIGNATURE

\* C13: Open finds each of Index.map, Index.btr, Objects.map and Objects.data
\* under every upper/lower-case spelling of the name, so that it opens all
\* four when the directory holds them, and it takes no file for one of them
\* whose name differs from it in more than letter case.
C13_CaseInsensitive ==
  life.op = "Open" =>
    /\ \A k \in 1..Len(life.steps) :
         SameButCase(life.steps[k].file, FileNames[k])
    /\ FourFilesThere(disk) =>
         (Len(life.steps) = 4 /\ life.outcome = Return(None))

\* The mappings file of a paged file.
MappingOf(role) ==
  IF role = "index_binary_tree" THEN "index_mapping" ELSE "objects_mapping"

---------------------------------------------------------------------------
(* Index page decoding: what the bytes of the page say *)

\* The last ReadPage call decoded its page without error.
Decoded == page_ret.kind = "call" /\ page_ret.r.kind = "return"

DecodedKeys == page_ret.r.value.keys

\* The number_of_keys field of the header of the page read last
HeaderNumberOfKeys == Uint32At(page_file, page_ret.file_offset + 16)

\* The child-pointer array of the page read last: the number_of_keys + 1
\* uint32le after the header and the array of number_of_keys uint32le.
ChildPointers ==
  [i \in 1..(HeaderNumberOfKeys + 1) |->
     Uint32At(page_file,
              page_ret.file_offset + 20 + 4 * HeaderNumberOfKeys + 4 * (i - 1))]

\* The size field of the key data of the page read last, in units of 2 bytes
KeyDataSize ==
  Uint16At(page_file, page_ret.file_offset + 24 + 10 * HeaderNumberOfKeys)

\* The segments of a key that begins with the separator
SegmentsOf(key) == Split(Tail(key), "\\")

WellFormedKey(key) ==
  /\ key # <<>>
  /\ key[1] = "\\"
  /\ \A j \in 1..Len(SegmentsOf(key)) : SegmentsOf(key)[j] # <<>>

\* C15: every key of a page that ReadPage decodes without error begins with
\* the separator and, split on the separator after the leading one, has no
\* empty segment, whatever the number of segments of the key and whatever the
\* value strings of the page.
C15_KeySegments ==
  Decoded => \A i \in 1..Len(DecodedKeys) : WellFormedKey(DecodedKeys[i])

\* C16: a page that ReadPage decodes without error has as many keys as the
\* number_of_keys field of its header says, whatever the size field of the key
\* data and the value tables hold.
C16_KeyCount == Decoded => Len(DecodedKeys) = HeaderNumberOfKeys

\* C17: after ReadPage has decoded the page at offset o the cursor is at most
\* at o + 8192, so that no byte at or beyond o + 8192 was read, whatever the
\* number_of_keys and the size fields of the page are.
C17_WithinPage == Decoded => page_ret.r.pos <= page_ret.file_offset + PAGE_SIZE

\* C18: after ReadPage the sub_pages of the page are the entries of its
\* child-pointer array of number_of_keys + 1 entries other than 0 and
\* 0xffffffff, in array order; none of them, the only numbers the enumeration
\* looks up as children, is 0 or 0xffffffff; and a page of no keys whose one
\* child pointer is 0 or 0xffffffff has no keys and no sub pages.
C18_SubPages ==
  Decoded =>
    /\ page_ret.r.value.sub_pages = Children([sub_pages_array |-> ChildPointers])
    /\ \A i \in 1..Len(page_ret.r.value.sub_pages) :
         page_ret.r.value.sub_pages[i] \notin {0, UNAVAILABLE}
    /\ (HeaderNumberOfKeys = 0 /\ ChildPointers[1] \in {0, UNAVAILABLE})
         => DecodedKeys = <<>> /\ page_ret.r.value.sub_pages = <<>>

\* A page of one key is decoded whose child pointers are 0xffffffff and 3.
C18_Witness ==
  /\ Decoded
  /\ ChildPointers = <<UNAVAILABLE, 3>>
  /\ Len(DecodedKeys) = 1
  /\ page_ret.r.value.sub_pages = <<3>>

---------------------------------------------------------------------------
(* The root page: what the files of the repository say *)

\* The page object of a page of Index.btr
PageObject(page) ==
  [kind |-> "IndexBinaryTreePage",
   page_type |-> page.page_type,
   root_page_number |-> page.root_page_number,
   keys |-> PageKeys(page),
   sub_pages |-> Children(page)]

\* The page object of physical page p of Index.btr, None for a page at or
\* beyond the end of the file.
PageAt(dsk, p) ==
  IF p >= dsk.index_pages THEN None
  ELSE PageObject(IndexPagesOnDisk(dsk)[p + 1])

\* The page at the physical page the first entry of the index mappings names
FirstMapped(dsk) == PageAt(dsk, dsk.index_mappings[1])

\* The page first is an administrative page (type 0xaddd).
IsAdministrative(first) ==
  first # None /\ first.page_type = PAGE_TYPE_ADMINISTRATIVE

\* The root page below the first mapped page first: the page at the physical
\* page that the index mappings give for the root_page_number of the
\* administrative page; None when first is no administrative page, or there
\* is no entry of that number or no such page.
RootBelow(dsk, first) ==
  IF ~IsAdministrative(first) THEN None
  ELSE IF first.root_page_number >= Len(dsk.index_mappings) THEN None
  ELSE PageAt(dsk, dsk.index_mappings[first.root_page_number + 1])

\* GetRootPage() and GetFirstMappedPage() of the open index file ibt, which
\* would end as r and f, go by the mappings and by their caches: first and
\* root are the first mapped page and the root page the files hold.
RootPageLookup(ibt, r, f, first, root) ==
  /\ r.outcome.kind = "return" => r.outcome.value = root
  /\ r.outcome.kind = "raise" => root = None
  /\ ~IsAdministrative(first) => r.outcome = Return(None)
  /\ ibt.root_page # None =>
       /\ ibt.root_page = root
       /\ r = [outcome |-> Return(ibt.root_page), ibt |-> ibt]
  /\ ibt.first_mapped_page # None =>
       /\ IsAdministrative(first)
       /\ ibt.first_mapped_page = first
       /\ f = [outcome |-> Return(ibt.first_mapped_page), ibt |-> ibt]
  /\ root = None => ibt.root_page = None /\ r.ibt.root_page = None
  /\ ~IsAdministrative(first) =>
       ibt.first_mapped_page = None /\ f.ibt.first_mapped_page = None

\* C19: while Index.btr is open, GetRootPage() returns the page at physical
\* page mappings[r], r the root_page_number of the page at physical page
\* mappings[0], and only when that page has type 0xaddd (None otherwise); r
\* is not taken for a physical page number; once a page is cached
\* GetFirstMappedPage() and GetRootPage() return it and leave the file and
\* its cursor alone; a lookup that failed has cached nothing.
C19_RootPage ==
  index_binary_tree_file # None =>
    RootPageLookup(index_binary_tree_file,
                   GetRootPage(index_binary_tree_file, disk),
                   GetFirstMappedPage(index_binary_tree_file, disk),
                   FirstMapped(disk), RootBelow(disk, FirstMapped(disk)))

\* Both pages are cached on an index whose mappings send root page number 1
\* to physical page 2.
C19_Witness ==
  /\ index_binary_tree_file # None
  /\ disk.index_mappings = <<0, 2, 1, 3>>
  /\ index_binary_tree_file.first_mapped_page = PageAt(disk, 0)
  /\ index_binary_tree_file.first_mapped_page.root_page_number = 1
  /\ index_binary_tree_file.root_page = PageAt(disk, 2)
  /\ PageAt(disk, 2) # PageAt(disk, 1)

---------------------------------------------------------------------------
(* The descriptor table of an objects page *)

\* The entries before the first all-zero entry
BeforeFirstEmpty(entries) ==
  LET empty == {i \in 1..Len(entries) : entries[i] = _EMPTY_OBJECT_DESCRIPTOR}
  IN  IF empty = {} THEN entries
      ELSE SubSeq(entries, 1, (CHOOSE i \in empty : \A j \in empty : i <= j) - 1)

\* The objects page the locator of the last call names was read in full.
PageLocated ==
  /\ Called
  /\ RetLocator # None
  /\ ObjectsPageWhole(disk, RetLocator.page_number)

\* On the descriptors read from a page, the lookup of (id, size), which ends
\* as found, returns a descriptor of the table with that identifier and data
\* size whenever there is one, and None otherwise.
LookupFinds(table, id, size, found) ==
  IF \E i \in WithIdentifier(table, id) : table[i].data_size = size
  THEN /\ found # None
       /\ \E i \in WithIdentifier(table, id) : table[i] = found
       /\ found.data_size = size
  ELSE found = None

\* The descriptors of the page the last call read are the entries of the page
\* before the first all-zero entry.
TableEndsAtEmptyEntry ==
  PageLocated =>
    ObjectDescriptorsOnDisk(disk, disk.objects_mappings[RetLocator.page_number + 1])
      = BeforeFirstEmpty(
          ObjectsPageEntries(disk, disk.objects_mappings[RetLocator.page_number + 1]))

\* C20: the descriptor table of the objects page a call reads is the entries
\* of the page before the first all-zero entry, and the lookup of the
\* identifier and data size of the locator returns a descriptor of the table
\* with that identifier and that data size whenever the table holds one, and
\* None otherwise.
C20_DescriptorLookup ==
  /\ TableEndsAtEmptyEntry
  /\ PageLocated =>
       LookupFinds(
         ObjectDescriptorsOnDisk(disk, disk.objects_mappings[RetLocator.page_number + 1]),
         RetLocator.record_identifier, RetLocator.data_size,
         GetObjectDescriptor(
           ObjectDescriptorsOnDisk(disk, disk.objects_mappings[RetLocator.page_number + 1]),
           RetLocator.record_identifier, RetLocator.data_size))

---------------------------------------------------------------------------
(* Reading the data of a record from its pages *)

\* The descriptor table of the page the locator of the last call names
RetTable ==
  ObjectDescriptorsOnDisk(disk, disk.objects_mappings[RetLocator.page_number + 1])

\* The last call found the descriptor of its locator on the page it names:
\* the first descriptor with the identifier has the data size.
DescriptorFound ==
  /\ PageLocated
  /\ WithIdentifier(RetTable, RetLocator.record_identifier) # {}
  /\ FirstWithIdentifier(RetTable, RetLocator.record_identifier).data_size
       = RetLocator.data_size

RetDescriptor == FirstWithIdentifier(RetTable, RetLocator.record_identifier)

\* The offset in Objects.data of the page the locator of the last call names
RetPageOffset == disk.objects_mappings[RetLocator.page_number + 1] * PAGE_SIZE

\* The bytes r that a read of data_size bytes at data_offset of the page at
\* offset b returned are no more than min(data_size, 8192 - data_offset)
\* bytes (none when that is negative), and bytes of [b + data_offset,
\* b + 8192).
ReadWithinPage(b, data_offset, data_size, r) ==
  r.kind = "return" =>
    /\ r.value.len <= Max(0, Min(data_size, PAGE_SIZE - data_offset))
    /\ r.value.len > 0 =>
         /\ r.value.off >= b + data_offset
         /\ r.value.off + r.value.len <= b + PAGE_SIZE

\* C21: the record data read of the first page of the record of the last
\* call, for the data_offset of its descriptor and the data_size of its
\* locator, returns at most min(data_size, 8192 - data_offset) bytes, all of
\* them bytes of [b + data_offset, b + 8192) of the page at offset b, and no
\* byte of another page.
C21_ReadWithinPage ==
  DescriptorFound =>
    ReadWithinPage(
      RetPageOffset, RetDescriptor.data_offset, RetLocator.data_size,
      ReadObjectRecordData(disk, python, objects_data_file.pos, RetPageOffset,
                           RetDescriptor.data_offset, RetLocator.data_size))

\* The bytes of a record of which remaining bytes are left at offset o of
\* logical page n: the bytes of that page from o on, then the bytes from
\* offset 0 of the logical pages after it, each page at the physical page the
\* objects mappings give for it, cut at remaining bytes in total.
RECURSIVE RecordBytes(_, _, _, _)
RecordBytes(dsk, n, o, remaining) ==
  IF remaining <= 0 \/ n >= Len(dsk.objects_mappings) THEN <<>>
  ELSE LET len == Max(0, Min(remaining, PAGE_SIZE - o))
       IN  (IF len = 0 THEN <<>>
            ELSE <<[off |-> dsk.objects_mappings[n + 1] * PAGE_SIZE + o,
                    len |-> len]>>)
             \o RecordBytes(dsk, n + 1, 0, remaining - len)

\* The last call returned an object record.
ReturnedRecord == ret.outcome.kind = "return" /\ ret.outcome.value # None

\* Every logical page the record of the last call lies on is mapped to a
\* page wholly inside Objects.data.
RecordPagesWhole ==
  \A n \in RetLocator.page_number..
           (RetLocator.page_number
              + ContinuationPages(RetDescriptor.data_offset,
                                  RetDescriptor.data_size)) :
    ObjectsPageWhole(disk, n)

\* C22: the record of a locator (p, id, size) whose descriptor has data
\* offset d is the bytes from d on of logical page p, then the bytes from
\* offset 0 of the logical pages p + 1, p + 2, ..., size bytes in all, each
\* page at the physical page the objects mappings give for it; and the
\* descriptors are read and searched on the first page only, so that the
\* record is returned when all its pages are inside Objects.data.
C22_Reassembly ==
  DescriptorFound =>
    /\ ReturnedRecord =>
         ret.outcome.value.data
           = RecordBytes(disk, RetLocator.page_number,
                         RetDescriptor.data_offset, RetLocator.data_size)
    /\ (RetDescriptor.data_offset <= PAGE_SIZE /\ RecordPagesWhole)
         => ReturnedRecord

---------------------------------------------------------------------------
(* The locator of a key *)

\* A text after its last c, all of it when it holds none
AfterLast(s, c) ==
  LET at == {i \in 1..Len(s) : s[i] = c}
  IN  IF at = {} THEN s
      ELSE SubSeq(s, (CHOOSE i \in at : \A j \in at : j <= i) + 1, Len(s))

\* A text up to its first c, all of it when it holds none
UpToFirst(s, c) ==
  LET at == {i \in 1..Len(s) : s[i] = c}
  IN  IF at = {} THEN s
      ELSE SubSeq(s, 1, (CHOOSE i \in at : \A j \in at : i <= j) - 1)

\* A base-10 integer: digits, after a sign or without one
IsInteger(s) ==
  /\ s # <<>>
  /\ LET body == IF s[1] \in {"+", "-"} THEN Tail(s) ELSE s
     IN  body # <<>> /\ \A i \in 1..Len(body) : IsDigit(body[i])

IntegerValue(s) ==
  IF s[1] = "-" THEN -DecimalValue(Tail(s), 0)
  ELSE IF s[1] = "+" THEN DecimalValue(Tail(s), 0)
  ELSE DecimalValue(s, 0)

\* The fields of the text after the last separator of a key
Fields(key) == Split(AfterLast(key, "\\"), ".")

\* The text after the last separator of the key is four fields of which the
\* 2nd, 3rd and 4th are integers.
HasLocator(key) ==
  /\ Len(Fields(key)) = 4
  /\ \A i \in 2..4 : IsInteger(Fields(key)[i])

\* C23: the locator of the key of a call is taken from the text after the
\* last separator of the key only: there is one exactly when that text is four
\* fields between '.' whose 2nd, 3rd and 4th are base-10 integers, which are
\* the page number, the identifier and the data size; and the data type of a
\* record returned is the first field up to its first '_', or all of it.
C23_Locator ==
  Called =>
    /\ RetLocator # None <=> HasLocator(ret.key)
    /\ RetLocator # None =>
         /\ RetLocator.page_number = IntegerValue(Fields(ret.key)[2])
         /\ RetLocator.record_identifier = IntegerValue(Fields(ret.key)[3])
         /\ RetLocator.data_size = IntegerValue(Fields(ret.key)[4])
    /\ ReturnedRecord =>
         /\ HasLocator(ret.key)
         /\ ret.outcome.value.data_type = UpToFirst(Fields(ret.key)[1], "_")

\* A record was returned for a key with '.' in an earlier segment, and its
\* data type is shorter than the first field of the locator.
C23_Witness ==
  /\ Called
  /\ ReturnedRecord
  /\ Find(ret.key, ".") < RFind(ret.key, "\\")
  /\ ret.outcome.value.data_type = <<"C", "D">>
  /\ Fields(ret.key)[1] = NameA


---------------------------------------------------------------------------
(* The exceptions of reading an index page *)

PageFailed == page_ret.kind = "call" /\ page_ret.r.kind = "raise"

\* C24: every failure of IndexBinaryTreePage.ReadPage on the bytes of a page,
\* whatever they are and wherever the file ends, is a ParseError and no other
\* exception.
C24_OnlyParseError == PageFailed => page_ret.r.exc = "ParseError"

---------------------------------------------------------------------------
(* The index pages an enumeration reads *)

\* GetMappedPage(page_number) of the enumeration read a page of Index.btr:
\* the mappings have the number and the page they give begins in the file.
SubPageRead(page_number) ==
  /\ PyIndexOk(disk.index_mappings, page_number)
  /\ PyIndex(disk.index_mappings, page_number) * PAGE_SIZE < IndexFileSize(disk)

\* C25: in one GetKeys() enumeration no logical index page is read more than
\* once through GetMappedPage, whatever the child pointers of the pages are.
C25_ReadOnce ==
  \A i \in 1..Len(reads) : \A j \in 1..Len(reads) :
    (i < j /\ SubPageRead(reads[i]) /\ SubPageRead(reads[j]))
      => reads[i] # reads[j]

---------------------------------------------------------------------------
(* Reads after Close *)

\* A step in which a page of Index.btr or of Objects.data may be read: a
\* sub page is looked up, or a paged file is bound whose cursor a read would
\* move.
ReadIssued ==
  \/ Len(reads') > Len(reads)
  \/ index_binary_tree_file' # None
  \/ objects_data_file' # None

\* C26: from the return of Close() to the next Open no step reads Index.btr
\* or Objects.data, the steps of a GetKeys() generator that was begun before
\* the Close included; a GetObjectRecordByKey call of that time returns None.
C26_NoReadAfterClose ==
  [][(life.op = "Close" /\ life'.op = "Close") =>
       /\ ~ReadIssued
       /\ ret' # ret => ret'.outcome = Return(None)]_vars

\* A generator that was begun on the open repository and had yielded the
\* keys of the root page was advanced after Close(): it ended in
\* AttributeError without looking up the sub page of the root page.
C26_Witness ==
  /\ life.op = "Close"
  /\ disk.children1 = <<2, 0, 0>>
  /\ gen.open /\ gen.status = "raised" /\ gen.exc = "AttributeError"
  /\ Len(yielded) > 0
  /\ reads = <<>>

---------------------------------------------------------------------------
(* An enumeration without a root page *)

\* The root page of the index dsk cannot be located: the first mapped page
\* is beyond the end of Index.btr or is not of type 0xaddd, or the physical
\* page of the root page is beyond the end of Index.btr.
RootNotLocated(dsk, first) ==
  \/ first = None
  \/ first.page_type # PAGE_TYPE_ADMINISTRATIVE
  \/ /\ first.root_page_number < Len(dsk.index_mappings)
     /\ PageAt(dsk, dsk.index_mappings[first.root_page_number + 1]) = None

\* A GetKeys() generator that was begun on the open repository has ended.
EnumerationEnded == gen.open /\ gen.status \in {"done", "raised"}

\* C27: on an open repository whose root page cannot be located GetKeys()
\* yields no key and ends without an exception.
C27_EmptyWithoutRoot ==
  (EnumerationEnded /\ RootNotLocated(disk, FirstMapped(disk))) =>
    (gen.status = "done" /\ yielded = <<>>)

---------------------------------------------------------------------------
(* Locators outside the objects mappings *)

\* The locator of the last call names a page that is negative or not below
\* the number of entries of the objects mappings.
OutsideMappings ==
  /\ Called
  /\ RetLocator # None
  /\ \/ RetLocator.page_number < 0
     \/ RetLocator.page_number >= Len(disk.objects_mappings)

\* C28: a locator whose PAGE is negative or not below the number of entries
\* of the objects mappings has no objects page read for it, the lookup of
\* its page in the mappings ends before any read, and yields no record.
C28_OutsideMappings ==
  OutsideMappings =>
    /\ ObjectsDataFile_GetMappedPage(
         objects_data_file, disk, python, RetLocator.page_number, FALSE).kind
         = "raise"
    /\ ~ReturnedRecord

---------------------------------------------------------------------------
(* The end of the reassembly loop *)

\* The loop for the locator of the last call, as it ended
RetLoop ==
  ReadDataSegments(objects_data_file, disk, python, RetLocator.page_number,
                   RetLocator.record_identifier, RetLocator.data_size, FALSE,
                   <<>>)

\* The loop that began at page number first and ended as r looked up no page
\* beyond the entries of the mappings, one page for every iteration: it
\* ended with page_number within first..Len(mappings), with a record or an
\* exception.
LoopBounded(r, first, mappings) ==
  /\ r.kind \in {"return", "raise"}
  /\ r.page_number >= first
  /\ r.page_number <= Max(first, Len(mappings))

\* C29: the reassembly loop of every call with a locator ends, with a record
\* or an exception, after no more page lookups than the objects mappings
\* have entries from the locator's page on; an iteration that read no byte
\* has advanced to the next logical page.
C29_LoopEnds ==
  (Called /\ RetLocator # None) =>
    /\ LoopBounded(RetLoop, RetLocator.page_number, disk.objects_mappings)
    /\ (DescriptorFound /\ RetDescriptor.data_offset = PAGE_SIZE) =>
         RetLoop.page_number > RetLocator.page_number

\* A record of 100 bytes whose descriptor has data offset 8192: the first
\* iteration read no byte of logical page 0 and the record is the first 100
\* bytes of logical page 1.
C29_Witness ==
  /\ DescriptorFound
  /\ RetLocator.page_number = 0
  /\ RetDescriptor.data_offset = PAGE_SIZE
  /\ RetLocator.data_size = 100
  /\ disk.objects_mappings = <<0, 1>>
  /\ ret.outcome.kind = "return"
  /\ ret.outcome.value.data = <<[off |-> PAGE_SIZE, len |-> 100]>>
  /\ RetLoop.page_number = 2

---------------------------------------------------------------------------
(* An Open that fails *)

\* The last Open call raised and no Close has been called since.
OpenFailed == life.op = "Open" /\ life.outcome.kind = "raise"

\* C30: after an Open(path) that raised, none of the index mapping, the
\* index binary-tree file, the objects mapping and the objects data file is
\* bound and no file is open, so that an enumeration begun then ends at once
\* without a key and GetObjectRecordByKey returns None for every key.
C30_AllOrNothing ==
  OpenFailed =>
    /\ index_mapping_file = None
    /\ index_binary_tree_file = None
    /\ objects_mapping_file = None
    /\ objects_data_file = None
    /\ handles = NoHandles
    /\ GetKeysStart(index_binary_tree_file, disk).status = "done"
    /\ \A key \in KeyInputs(disk) :
         CIMRepository_GetObjectRecordByKey(
           objects_data_file, disk, python, key).outcome = Return(None)

=========================================================================
